---- MODULE Spec2Model ----
(***************************************************************************)
(* dialoguer: the list prompts (Select, MultiSelect, Sort), the Paging     *)
(* controller they share and the TermThemeRenderer that tracks how many    *)
(* terminal lines a prompt has printed.                                    *)
(*                                                                         *)
(* A text is modelled as the sequence of the widths of its lines (the text *)
(* split at '\n'), so a text of k lines holds k - 1 newline characters.    *)
(* The terminal is its size <<rows, cols>> and the rows on its screen:     *)
(* those printed before the prompt started and those the prompt printed.   *)
(***************************************************************************)
EXTENDS Integers, Sequences, FiniteSets, TLC

VARIABLES
    cfg,        \* the prompt as built: kind, items, prompt, clear, default(s), ...
    term_size,  \* Term::size(): <<rows, cols>>
    screen,     \* rows on the terminal, oldest first
    paging,     \* struct Paging
    render,     \* struct TermThemeRenderer
    sel,        \* cursor of the interaction loop
    checked,    \* MultiSelect: Vec<bool>
    order,      \* Sort: Vec<usize>
    grabbed,    \* Sort: the local `checked: bool`
    pc,         \* position in the interaction loop
    result,     \* what the interaction returned
    edit,       \* the text prompts: the text typed so far, the edit cursor, the list shown
    nav         \* history: Downs minus Ups so far (mod N), whether a page key moved the
                \* cursor, and for each item whether Space was pressed on it an odd number of times

vars == <<cfg, term_size, screen, paging, render, sel, checked, order, grabbed, pc, result, edit, nav>>

---------------------------------------------------------------------------
(* Bounds *)

MaxItems == 3
MaxRows == 4
MaxPromptLines == 2
MaxDefault == 3
PreLines == 2
MaxScreen == 16
MaxPagingRows == 10

\* `!0`, the cursor value meaning "nothing selected" (usize::MAX in the source).
NoSel == -1

TermRows == 3..MaxRows
TermCols == {8, 16}
PagingRows == 3..MaxPagingRows
PagingLens == (1..(MaxItems + 2)) \cup {25}

Min(a, b) == IF a < b THEN a ELSE b

---------------------------------------------------------------------------
(* Paging *)

\* (items_len as f64 / capacity as f64).ceil() as usize; exact for the small
\* integers of the model.
CeilDiv(n, d) == (n + d - 1) \div d

Capacity(size) == size[1] - 2

Pages(items_len, capacity) == CeilDiv(items_len, capacity)

PagingNew(size, items_len) ==
    LET capacity == Capacity(size)
        pages == Pages(items_len, capacity)
    IN  [ current_term_size   |-> size,
          pages               |-> pages,
          current_page        |-> 0,
          capacity            |-> capacity,
          items_len           |-> items_len,
          active              |-> pages > 1,
          activity_transition |-> TRUE ]

\* A faulty update that takes the new size but keeps the old page count.
ResizedStalePages(p, size) ==
    IF p.current_term_size # size
    THEN [p EXCEPT !.current_term_size = size, !.capacity = Capacity(size)]
    ELSE p

\* First part of update: the terminal size is read again.
Resized(p, size) ==
    IF p.current_term_size # size
    THEN [p EXCEPT !.current_term_size = size,
                   !.capacity = Capacity(size),
                   !.pages = Pages(p.items_len, Capacity(size))]
    ELSE p

\* Second part of update: the activity flag follows pages > 1.
Activity(p) ==
    IF p.active # (p.pages > 1)
    THEN [p EXCEPT !.active = p.pages > 1, !.activity_transition = TRUE]
    ELSE [p EXCEPT !.activity_transition = FALSE]

\* A faulty page follower that lets the cursor sit one past the window.
UpdatePageLate(p, cursor_pos) ==
    IF cursor_pos # NoSel
       /\ (cursor_pos < p.current_page * p.capacity
           \/ cursor_pos > (p.current_page + 1) * p.capacity)
    THEN [p EXCEPT !.current_page = cursor_pos \div p.capacity]
    ELSE p

\* Third part of update (update_page in prompts/select.rs): the page follows the cursor.
UpdatePage(p, cursor_pos) ==
    IF cursor_pos # NoSel
       /\ (cursor_pos < p.current_page * p.capacity
           \/ cursor_pos >= (p.current_page + 1) * p.capacity)
    THEN [p EXCEPT !.current_page = cursor_pos \div p.capacity]
    ELSE p

PagingUpdate(p, size, cursor_pos) == UpdatePage(Activity(Resized(p, size)), cursor_pos)

\* Lines update hands to term.clear_last_lines itself: capacity on a flip, else none.
UpdateClears(p, size) ==
    LET q == Resized(p, size)
    IN  IF q.active # (q.pages > 1) THEN q.capacity ELSE 0

NextPage(p) ==
    IF p.current_page = p.pages - 1
    THEN [p EXCEPT !.current_page = 0]
    ELSE [p EXCEPT !.current_page = @ + 1]

PreviousPage(p) ==
    IF p.current_page = 0
    THEN [p EXCEPT !.current_page = p.pages - 1]
    ELSE [p EXCEPT !.current_page = @ - 1]

\* What next_page and previous_page return: the first index of the page.
PageStart(p) == p.current_page * p.capacity

---------------------------------------------------------------------------
(* Texts and the terminal *)

\* buf.chars().filter(|&x| x == '\n').count()
Newlines(text) == Len(text) - 1

\* Rows a line of width w takes on a terminal of the given columns: a line
\* wider than the terminal wraps.
RowsOf(w, cols) == IF w = 0 THEN 1 ELSE (w + cols - 1) \div cols

RECURSIVE TextRowsFrom(_, _, _)
TextRowsFrom(text, cols, i) ==
    IF i > Len(text) THEN 0
    ELSE RowsOf(text[i], cols) + TextRowsFrom(text, cols, i + 1)

TextRows(text, cols) == TextRowsFrom(text, cols, 1)

\* The screen holds `pre` rows printed before the prompt started and, below
\* them, `out` rows printed by the prompt; rows above the newest MaxScreen
\* rows of the prompt have scrolled out of reach.

\* term.write_line(buf): the text and a line break.
TermWriteLine(scr, text, size) ==
    [scr EXCEPT !.out = Min(@ + TextRows(text, size[2]), MaxScreen)]

\* term.clear_last_lines(n): the n rows above the cursor are erased and the
\* cursor moves up to the first of them; it cannot move above the screen.
TermClearLastLines(scr, n) ==
    LET own == Min(n, scr.out)
    IN  [scr EXCEPT !.out = @ - own, !.pre = @ - Min(n - own, scr.pre)]

\* A text of k short lines.
ShortText(k) == [i \in 1..k |-> 1]

\* What the theme puts before an item: "> " or "  " in a menu, "> [x] " and
\* the like before a checkbox.
PrefixWidth(kind) == IF kind = "multi" THEN 6 ELSE 2

\* Theme::format_selection: the prefix, then the text.
FormatItem(kind, item) ==
    [i \in 1..Len(item) |-> IF i = 1 THEN item[1] + PrefixWidth(kind) ELSE item[i]]

\* Theme::format_prompt: the prompt and ":" (and the page numbers when paging).
FormatPrompt(prompt_lines) == ShortText(prompt_lines)

---------------------------------------------------------------------------
(* TermThemeRenderer *)

RenderNew == [height |-> 0, prompt_height |-> 0, prompts_reset_height |-> TRUE]

LineHeight(text) == Newlines(text) + 1

WriteFormattedLine(r, text) == [r EXCEPT !.height = @ + LineHeight(text)]

WriteFormattedPrompt(r, text) ==
    LET w == WriteFormattedLine(r, text)
    IN  IF w.prompts_reset_height
        THEN [w EXCEPT !.prompt_height = w.height, !.height = 0]
        ELSE w

\* A faulty clear that leaves the header out.
ClearLinesNoPrompt(r) == r.height

\* clear: the lines handed to term.clear_last_lines, and the renderer after it.
ClearLines(r) == r.height + r.prompt_height

Clear(r) == [r EXCEPT !.height = 0]

\* A faulty overflow count that compares with the rows of the terminal.
OverflowsRows(size_vec, size) == Cardinality({i \in DOMAIN size_vec : size_vec[i] > size[1]})

\* clear_preserve_prompt: one more line for every size above the columns.
Overflows(size_vec, size) == Cardinality({i \in DOMAIN size_vec : size_vec[i] > size[2]})

ClearPreservePromptLines(r, size_vec, size) == r.height + Overflows(size_vec, size)

ClearPreservePrompt(r) == [r EXCEPT !.height = 0]

---------------------------------------------------------------------------
(* Paging on its own, driven by any caller *)

NoCfg == [kind |-> "paging"]
NoResult == [tag |-> "none"]
NoNav == [net |-> 0, paged |-> FALSE, odd |-> <<>>]
NoEdit == [kind |-> "none"]

PagingInit ==
    /\ cfg = NoCfg
    /\ \E rows \in PagingRows, cols \in TermCols, n \in PagingLens :
          /\ term_size = <<rows, cols>>
          /\ paging = PagingNew(<<rows, cols>>, n)
          /\ sel \in {NoSel} \cup (0..(n - 1))
    /\ screen = [pre |-> 0, out |-> 0]
    /\ render = RenderNew
    /\ checked = <<>>
    /\ order = <<>>
    /\ grabbed = FALSE
    /\ pc = "new"
    /\ result = NoResult
    /\ edit = NoEdit
    /\ nav = NoNav

\* The caller's key handlers: Down/Up (or a key that moves nothing), then
\* Right and Left, which the prompts call only while paging is active.
PagingKeyMove ==
    /\ pc \in {"new", "update"}
    /\ \E c \in {sel} \cup (0..(paging.items_len - 1)) : sel' = c
    /\ pc' = "key"
    /\ UNCHANGED <<edit, cfg, term_size, screen, paging, render, checked, order, grabbed, result, nav>>

PagingCallNextPage ==
    /\ pc \in {"new", "update"}
    /\ paging.active
    /\ paging' = NextPage(paging)
    /\ sel' = PageStart(paging')
    /\ pc' = "key"
    /\ UNCHANGED <<edit, cfg, term_size, screen, render, checked, order, grabbed, result, nav>>

PagingCallPreviousPage ==
    /\ pc \in {"new", "update"}
    /\ paging.active
    /\ paging' = PreviousPage(paging)
    /\ sel' = PageStart(paging')
    /\ pc' = "key"
    /\ UNCHANGED <<edit, cfg, term_size, screen, render, checked, order, grabbed, result, nav>>

\* The terminal is resized while the caller waits for the key; the size is
\* read again only by update.
PagingResize ==
    /\ pc = "key"
    /\ \E rows \in PagingRows : term_size' = <<rows, term_size[2]>>
    /\ term_size' # term_size
    /\ UNCHANGED <<edit, cfg, screen, paging, render, sel, checked, order, grabbed, pc, result, nav>>

PagingCallUpdate ==
    /\ pc = "key"
    /\ paging' = PagingUpdate(paging, term_size, sel)
    /\ pc' = "update"
    /\ UNCHANGED <<edit, cfg, term_size, screen, render, sel, checked, order, grabbed, result, nav>>

PagingNext ==
    \/ PagingKeyMove
    \/ PagingCallNextPage
    \/ PagingCallPreviousPage
    \/ PagingResize
    \/ PagingCallUpdate

SpecPaging == PagingInit /\ [][PagingNext]_vars

---------------------------------------------------------------------------
(* The prompts as built: Select, MultiSelect, Sort *)

PlainItem == <<1>>
TallItem == <<1, 9>>

ItemLists(shapes) == UNION {[1..n -> shapes] : n \in 1..MaxItems}

\* Select: default() takes any usize; with_theme leaves it at !0.
SelectCfgs(lists, prompts, flags) ==
    [ kind : {"select"}, items : lists, prompt : prompts, clear : flags,
      allow_quit : flags, report : flags,
      default : {NoSel} \cup (0..MaxDefault), defaults : {<<>>} ]

\* MultiSelect: one default per item; the cursor starts at 0.
MultiSelectCfgs(lists, prompts, flags) ==
    UNION {[ kind : {"multi"}, items : {l}, prompt : prompts, clear : flags,
             allow_quit : flags, report : {FALSE},
             default : {0}, defaults : [1..Len(l) -> BOOLEAN] ] : l \in lists}

\* Sort: no defaults and no way to quit; the cursor starts at 0.
SortCfgs(lists, prompts, flags) ==
    [ kind : {"sort"}, items : lists, prompt : prompts, clear : flags,
      allow_quit : {FALSE}, report : {FALSE},
      default : {0}, defaults : {<<>>} ]

Cfgs(lists, prompts, flags) ==
    SelectCfgs(lists, prompts, flags) \cup MultiSelectCfgs(lists, prompts, flags)
        \cup SortCfgs(lists, prompts, flags)

N == Len(cfg.items)

\* size_vec: the length of every line of every item (items split at '\n');
\* Sort takes the length of each whole item.
RECURSIVE Flatten(_, _)
Flatten(items, i) ==
    IF i > Len(items) THEN <<>> ELSE items[i] \o Flatten(items, i + 1)

RECURSIVE SumFrom(_, _)
SumFrom(text, i) == IF i > Len(text) THEN 0 ELSE text[i] + SumFrom(text, i + 1)

SizeVec(c) ==
    IF c.kind = "sort"
    THEN [i \in 1..Len(c.items) |-> SumFrom(c.items[i], 1) + Newlines(c.items[i])]
    ELSE Flatten(c.items, 1)

\* The state at the top of the loop of _interact_on.
Start(c, size) ==
    /\ cfg = c
    /\ term_size = size
    /\ screen = [pre |-> PreLines, out |-> 0]
    /\ sel = c.default
    /\ paging = IF c.kind = "select"
                THEN UpdatePage(PagingNew(size, Len(c.items)), c.default)
                ELSE PagingNew(size, Len(c.items))
    /\ render = RenderNew
    /\ checked = c.defaults
    /\ order = IF c.kind = "sort" THEN [i \in 1..Len(c.items) |-> i - 1] ELSE <<>>
    /\ grabbed = FALSE
    /\ pc = "render"
    /\ result = NoResult
    /\ edit = NoEdit
    /\ nav = [NoNav EXCEPT !.odd = [i \in DOMAIN c.defaults |-> FALSE]]

Init ==
    \E c \in Cfgs(ItemLists({PlainItem}), {0, 1}, BOOLEAN),
       rows \in TermRows :
        Start(c, <<rows, 16>>)

---------------------------------------------------------------------------
(* One iteration of the loop *)

\* Positions cp*capacity .. shown on the page: skip(current_page * capacity).take(capacity).
PageFirst(p) == p.current_page * p.capacity
PageLast(p, n) == Min(PageFirst(p) + p.capacity, n) - 1

\* The item shown at position idx (Sort shows items[order[idx]]).
ItemAt(idx) ==
    IF cfg.kind = "sort" THEN cfg.items[order[idx + 1] + 1] ELSE cfg.items[idx + 1]

RECURSIVE RenderItems(_, _, _)
RenderItems(r, idx, last) ==
    IF idx > last THEN r
    ELSE RenderItems(WriteFormattedLine(r, FormatItem(cfg.kind, ItemAt(idx))), idx + 1, last)

RECURSIVE WriteItems(_, _, _)
WriteItems(scr, idx, last) ==
    IF idx > last THEN scr
    ELSE WriteItems(TermWriteLine(scr, FormatItem(cfg.kind, ItemAt(idx)), term_size),
                    idx + 1, last)

\* Paging::render_prompt: the header is written while paging is active, and
\* once after the activity changed.
HeaderDue(p) == cfg.prompt # 0 /\ (p.active \/ p.activity_transition)

Render ==
    /\ pc = "render"
    /\ LET r1 == IF HeaderDue(paging)
                 THEN WriteFormattedPrompt(render, FormatPrompt(cfg.prompt))
                 ELSE render
           s1 == IF HeaderDue(paging)
                 THEN TermWriteLine(screen, FormatPrompt(cfg.prompt), term_size)
                 ELSE screen
       IN  /\ render' = RenderItems(r1, PageFirst(paging), PageLast(paging, N))
           /\ screen' = WriteItems(s1, PageFirst(paging), PageLast(paging, N))
    /\ pc' = "read"
    /\ UNCHANGED <<edit, cfg, term_size, paging, sel, checked, order, grabbed, result, nav>>

\* The terminal is resized while read_key blocks; the size is read again
\* only by update and clear_preserve_prompt.
Resize ==
    /\ pc = "read"
    /\ \E rows \in TermRows : term_size' = <<rows, term_size[2]>>
    /\ term_size' # term_size
    /\ UNCHANGED <<edit, cfg, screen, paging, render, sel, checked, order, grabbed, pc, result, nav>>

\* paging.update(sel)
Update ==
    /\ pc = "update"
    /\ paging' = PagingUpdate(paging, term_size, sel)
    /\ screen' = TermClearLastLines(screen, UpdateClears(paging, term_size))
    /\ pc' = "clear"
    /\ UNCHANGED <<edit, cfg, term_size, render, sel, checked, order, grabbed, result, nav>>

\* if paging.active { render.clear() } else { render.clear_preserve_prompt(&size_vec) }
EraseLines ==
    IF paging.active
    THEN ClearLines(render)
    ELSE ClearPreservePromptLines(render, SizeVec(cfg), term_size)

Erase ==
    /\ pc = "clear"
    /\ screen' = TermClearLastLines(screen, EraseLines)
    /\ render' = IF paging.active THEN Clear(render) ELSE ClearPreservePrompt(render)
    /\ pc' = "render"
    /\ UNCHANGED <<edit, cfg, term_size, paging, sel, checked, order, grabbed, result, nav>>

---------------------------------------------------------------------------
(* The key handlers of `match term.read_key()?` *)

\* Faulty handlers that stop at the ends of the list.
DownFromNoWrap(s, n) == IF s = NoSel THEN 0 ELSE Min(s + 1, n - 1)
UpFromNoWrap(s, n) == IF s = NoSel THEN n - 1 ELSE IF s = 0 THEN 0 ELSE s - 1

\* ArrowDown | j (and Tab in Select)
DownFrom(s, n) == IF s = NoSel THEN 0 ELSE (s + 1) % n

\* ArrowUp | k (and BackTab in Select)
UpFrom(s, n) == IF s = NoSel THEN n - 1 ELSE (s - 1 + n) % n

\* A faulty swap that copies slot a into slot b.
SwapCopy(ord, a, b) == [ord EXCEPT ![b + 1] = ord[a + 1]]

\* order.swap(a, b), positions counted from 0.
Swap(ord, a, b) == [ord EXCEPT ![a + 1] = ord[b + 1], ![b + 1] = ord[a + 1]]

Range(a, b) == [i \in 1..(b - a + 1) |-> a + i - 1]
RevRange(a, b) == [i \in 1..(b - a + 1) |-> b - i + 1]

\* for index in 0..(indexes.len() - 1) { order.swap(indexes[index], indexes[index + 1]) }
RECURSIVE SwapChain(_, _, _)
SwapChain(ord, indexes, i) ==
    IF i >= Len(indexes) THEN ord
    ELSE SwapChain(Swap(ord, indexes[i], indexes[i + 1]), indexes, i + 1)

\* A faulty path that does not go round from the first page to the last.
LeftIndexesNoWrap(old_page, old_sel, new_sel, n) == RevRange(new_sel, old_sel)

\* Sort, ArrowLeft while grabbed: the positions the grabbed item passes.
LeftIndexes(old_page, old_sel, new_sel, n) ==
    IF old_page = 0
    THEN RevRange(0, old_sel) \o RevRange(new_sel, n - 1)
    ELSE RevRange(new_sel, old_sel)

\* Sort, ArrowRight while grabbed.
RightIndexes(old_page, pages, old_sel, new_sel, n) ==
    IF old_page = pages - 1
    THEN Range(old_sel, n - 1) \o <<0>>
    ELSE Range(old_sel, new_sel)

RECURSIVE CheckedFrom(_, _)
CheckedFrom(ch, i) ==
    IF i > Len(ch) THEN <<>>
    ELSE (IF ch[i] THEN <<i - 1>> ELSE <<>>) \o CheckedFrom(ch, i + 1)

\* A faulty collection that returns the checked indices last first.
CheckedIndicesDescending(ch) ==
    LET c == CheckedFrom(ch, 1) IN [i \in 1..Len(c) |-> c[Len(c) + 1 - i]]

\* checked.into_iter().enumerate().filter_map(..).collect()
CheckedIndices(ch) == CheckedFrom(ch, 1)

\* History of the navigation: k more Downs, until a page key moves the cursor.
Moved(h, k, n) == IF h.paged THEN h ELSE [h EXCEPT !.net = (@ + k) % n]
Paged == [nav EXCEPT !.net = 0, !.paged = TRUE]

KeyDown ==
    /\ pc = "read"
    /\ sel' = DownFrom(sel, N)
    /\ order' = IF cfg.kind = "sort" /\ grabbed /\ sel # sel'
                THEN Swap(order, sel, sel') ELSE order
    /\ pc' = "update"
    /\ UNCHANGED <<edit, cfg, term_size, screen, paging, render, checked, grabbed, result>>
    /\ nav' = Moved(nav, 1, N)

KeyUp ==
    /\ pc = "read"
    /\ sel' = UpFrom(sel, N)
    /\ order' = IF cfg.kind = "sort" /\ grabbed /\ sel # sel'
                THEN Swap(order, sel, sel') ELSE order
    /\ pc' = "update"
    /\ UNCHANGED <<edit, cfg, term_size, screen, paging, render, checked, grabbed, result>>
    /\ nav' = Moved(nav, N - 1, N)

\* ArrowLeft | h
KeyLeft ==
    /\ pc = "read"
    /\ IF paging.active
       THEN /\ paging' = PreviousPage(paging)
            /\ sel' = PageStart(paging')
            /\ order' = IF cfg.kind = "sort" /\ grabbed
                        THEN SwapChain(order,
                                 LeftIndexes(paging.current_page, sel, sel', N), 1)
                        ELSE order
       ELSE UNCHANGED <<paging, sel, order>>
    /\ pc' = "update"
    /\ UNCHANGED <<edit, cfg, term_size, screen, render, checked, grabbed, result>>
    /\ nav' = IF paging.active THEN Paged ELSE nav

\* ArrowRight | l.  A cursor beyond the items (Select::default takes any
\* usize) lets the page grow with every press; the model stops it at MaxDefault.
KeyRight ==
    /\ pc = "read"
    /\ paging.current_page <= MaxDefault
    /\ IF paging.active
       THEN /\ paging' = NextPage(paging)
            /\ sel' = PageStart(paging')
            /\ order' = IF cfg.kind = "sort" /\ grabbed
                        THEN SwapChain(order,
                                 RightIndexes(paging.current_page, paging.pages, sel, sel', N), 1)
                        ELSE order
       ELSE UNCHANGED <<paging, sel, order>>
    /\ pc' = "update"
    /\ UNCHANGED <<edit, cfg, term_size, screen, render, checked, grabbed, result>>
    /\ nav' = IF paging.active THEN Paged ELSE nav

\* The lines of "prompt: selection" written when the interaction ends.
SelectionText(shown) ==
    ShortText(cfg.prompt + SumFrom([i \in 1..Len(shown) |-> Newlines(shown[i])], 1))

\* Leaves the loop: clear (when asked), then the selection line (when asked).
Finish(do_clear, report, shown, res) ==
    LET r1 == IF do_clear THEN Clear(render) ELSE render
        s1 == IF do_clear THEN TermClearLastLines(screen, ClearLines(render)) ELSE screen
    IN  /\ render' = IF report THEN WriteFormattedPrompt(r1, SelectionText(shown)) ELSE r1
        /\ screen' = IF report THEN TermWriteLine(s1, SelectionText(shown), term_size) ELSE s1
        /\ result' = res
        /\ pc' = "done"
        /\ UNCHANGED nav

\* Select, Enter | Space with sel != !0: &self.items[sel] panics beyond the items.
SelectReturn ==
    IF cfg.prompt # 0 /\ cfg.report /\ sel >= N
    THEN Finish(cfg.clear, FALSE, <<>>, [tag |-> "panic"])
    ELSE Finish(cfg.clear, cfg.prompt # 0 /\ cfg.report,
                IF sel < N THEN <<cfg.items[sel + 1]>> ELSE <<>>,
                [tag |-> "index", value |-> sel])

CheckedItems == [i \in 1..Len(CheckedIndices(checked)) |-> cfg.items[CheckedIndices(checked)[i] + 1]]

OrderedItems == [i \in 1..Len(order) |-> cfg.items[order[i] + 1]]

\* A key the match ignores: on to paging.update.
Ignored ==
    /\ pc' = "update"
    /\ UNCHANGED <<screen, render, result, nav>>

KeyEnter ==
    /\ pc = "read"
    /\ CASE cfg.kind = "select" -> IF sel # NoSel THEN SelectReturn ELSE Ignored
         [] cfg.kind = "multi" ->
                Finish(cfg.clear, cfg.prompt # 0, CheckedItems,
                       [tag |-> "indices", value |-> CheckedIndices(checked)])
         [] cfg.kind = "sort" ->
                Finish(cfg.clear, cfg.prompt # 0, OrderedItems,
                       [tag |-> "order", value |-> order])
    /\ UNCHANGED <<edit, cfg, term_size, paging, sel, checked, order, grabbed>>

\* Char(' ')
KeySpace ==
    /\ pc = "read"
    /\ CASE cfg.kind = "select" ->
                /\ IF sel # NoSel THEN SelectReturn ELSE Ignored
                /\ UNCHANGED <<checked, grabbed>>
         [] cfg.kind = "multi" ->
                /\ checked' = [checked EXCEPT ![sel + 1] = ~checked[sel + 1]]
                /\ nav' = [nav EXCEPT !.odd[sel + 1] = ~@]
                /\ pc' = "update"
                /\ UNCHANGED <<screen, render, result, grabbed>>
         [] cfg.kind = "sort" ->
                /\ grabbed' = ~grabbed
                /\ Ignored
                /\ UNCHANGED checked
    /\ UNCHANGED <<edit, cfg, term_size, paging, sel, order>>

\* A faulty handler that quits whether or not quitting is allowed.
KeyEscapeAlways ==
    /\ pc = "read"
    /\ render' = (IF cfg.clear THEN Clear(render) ELSE render)
    /\ screen' = TermClearLastLines(screen, IF cfg.clear THEN ClearLines(render) ELSE 0)
    /\ result' = [tag |-> "quit"]
    /\ pc' = "done"
    /\ UNCHANGED <<edit, cfg, term_size, paging, sel, checked, order, grabbed, nav>>

\* Escape | q
KeyEscape ==
    /\ pc = "read"
    /\ IF cfg.kind \in {"select", "multi"} /\ cfg.allow_quit
       THEN LET r1 == IF cfg.clear THEN Clear(render) ELSE render
                n  == IF cfg.clear THEN ClearLines(render)
                      ELSE IF cfg.kind = "select" THEN paging.capacity ELSE 0
            IN  /\ render' = r1
                /\ screen' = TermClearLastLines(screen, n)
                /\ result' = [tag |-> "quit"]
                /\ pc' = "done"
                /\ UNCHANGED nav
       ELSE Ignored
    /\ UNCHANGED <<edit, cfg, term_size, paging, sel, checked, order, grabbed>>

\* Char('a'): the match of Select, MultiSelect and Sort has no arm for it.
KeyA ==
    /\ pc = "read"
    /\ Ignored
    /\ UNCHANGED <<edit, cfg, term_size, paging, sel, checked, order, grabbed>>

\* Any other key.
KeyOther ==
    /\ pc = "read"
    /\ Ignored
    /\ UNCHANGED <<edit, cfg, term_size, paging, sel, checked, order, grabbed>>

\* MultiSelect::interact_on: None from the loop becomes an error.
InteractOn(res) ==
    IF res.tag = "quit" THEN [tag |-> "error", value |-> "Quit not allowed in this case"]
    ELSE res

Next ==
    \/ Render
    \/ Resize
    \/ KeyDown
    \/ KeyUp
    \/ KeyLeft
    \/ KeyRight
    \/ KeySpace
    \/ KeyEnter
    \/ KeyEscape
    \/ KeyA
    \/ KeyOther
    \/ Update
    \/ Erase

Spec == Init /\ [][Next]_vars

---------------------------------------------------------------------------
(* The same loop over items of several lines and lines wider than the      *)
(* terminal, left by Enter only                                            *)

RenderCfgs ==
    {c \in Cfgs(ItemLists({PlainItem, TallItem}), 0..MaxPromptLines, BOOLEAN) :
        /\ c.kind = "select"
        /\ c.clear /\ ~c.allow_quit /\ ~c.report
        /\ c.default \in {NoSel, 0}
        /\ \A i \in DOMAIN c.defaults : ~c.defaults[i]}

RenderInit ==
    \E c \in RenderCfgs, rows \in TermRows, cols \in TermCols :
        Start(c, <<rows, cols>>)

SpecRender == RenderInit /\ [][Next]_vars

---------------------------------------------------------------------------
(* Claims *)

\* The rows of the prompt the renderer accounts for.
Tracked == render.height + render.prompt_height

\* C1 (as claimed): while the loop runs, no row printed before the prompt is
\* ever erased; whenever the loop waits for a key or is about to erase, the
\* rows of the prompt on the screen are exactly height + prompt_height; and
\* after the erase only a preserved header is left.
C1_EraseExactlyOwnLines ==
    /\ pc # "done" => screen.pre = PreLines
    /\ pc \in {"read", "update"} => screen.out = Tracked
    /\ pc = "render" =>
          /\ render.height = 0
          /\ screen.out = IF HeaderDue(paging) \/ cfg.prompt = 0 THEN 0
                          ELSE render.prompt_height

---------------------------------------------------------------------------
(* The renderer's counters (C2, C3) *)

\* Rows on the screen, and a step that takes away n of them (or all there are).
ScreenRows(scr) == scr.pre + scr.out
ErasedBy(n) == ScreenRows(screen) - ScreenRows(screen') = Min(n, ScreenRows(screen))

\* 1 + embedded newlines of every item line written for page p.
RECURSIVE PageLinesFrom(_, _)
PageLinesFrom(idx, last) ==
    IF idx > last THEN 0
    ELSE (1 + Newlines(cfg.items[idx + 1])) + PageLinesFrom(idx + 1, last)

PageLines(p) == PageLinesFrom(PageFirst(p), PageLast(p, N))

\* 1 + embedded newlines of the header, when this iteration wrote one.
HeaderLines(p) == IF HeaderDue(p) THEN 1 + Newlines(FormatPrompt(cfg.prompt)) ELSE 0

\* A step in which render.clear() runs: the erase of the loop while paging is
\* active, or the way out through Enter with clear set.
ClearStep ==
    \/ pc = "clear" /\ paging.active /\ pc' = "render"
    \/ pc = "read" /\ pc' = "done" /\ cfg.clear

\* A step in which render.clear_preserve_prompt(&size_vec) runs.
PreserveStep == pc = "clear" /\ ~paging.active /\ pc' = "render"

ClearErasesTracked == [][ClearStep => ErasedBy(Tracked) /\ render'.height = 0]_vars

WideLines ==
    Cardinality({ij \in (1..N) \X (1..2) :
                    /\ ij[2] <= Len(cfg.items[ij[1]])
                    /\ cfg.items[ij[1]][ij[2]] > term_size[2]})

\* C3: clear_preserve_prompt erases height + k lines, k the number of item
\* line lengths above the columns; prompt_height is not counted and not
\* changed, and height becomes 0.
C3_PreserveErasesHeightPlusWide ==
    [][PreserveStep =>
          /\ ErasedBy(render.height + WideLines)
          /\ render'.prompt_height = render.prompt_height
          /\ render'.height = 0]_vars

\* After a clear_preserve_prompt under a header, with a line wider than the
\* terminal in the list, that left the header on the screen.
C3_Witness ==
    /\ pc = "render" /\ ~paging.active /\ ~paging.activity_transition
    /\ render.prompt_height > 0 /\ render.height = 0
    /\ WideLines > 0
    /\ screen.out > 0

---------------------------------------------------------------------------
(* Paging (C4, C5) *)

\* C4: after new and after every update, capacity = rows - 2, pages =
\* ceil(items_len / capacity) and active = (pages > 1), also after a resize.
C4_PagingGeometry ==
    pc \in {"new", "update"} =>
        /\ paging.capacity = term_size[1] - 2
        /\ paging.pages * paging.capacity >= paging.items_len
        /\ (paging.pages - 1) * paging.capacity < paging.items_len
        /\ paging.active = (paging.pages > 1)

\* After an update that found the terminal resized and turned paging on.
C4_Witness ==
    /\ pc = "update" /\ paging.activity_transition /\ paging.active
    /\ paging.pages = 3 /\ paging.capacity = 2

\* The cursor is on page cp of pages of the given capacity.
OnPage(cursor, cp, capacity) == cp * capacity <= cursor /\ cursor < (cp + 1) * capacity

\* C5: after update(cursor) with a valid cursor, the cursor is on the current
\* page and the page exists; a cursor already on the current page, and the
\* sentinel, leave the page alone; 10 rows, 25 items, cursor 9: page 1 of 4.
C5_PageFollowsCursor ==
    /\ [](pc = "update" /\ sel \in 0..(paging.items_len - 1) =>
            /\ OnPage(sel, paging.current_page, paging.capacity)
            /\ paging.current_page < paging.pages)
    /\ [](pc = "update" /\ term_size[1] = 10 /\ paging.items_len = 25 /\ sel = 9 =>
            paging.capacity = 8 /\ paging.pages = 4 /\ paging.current_page = 1)
    /\ [][PagingCallUpdate
            /\ (sel = NoSel \/ OnPage(sel, paging.current_page, Capacity(term_size)))
          => paging'.current_page = paging.current_page]_vars

\* The example, reached from page 0 by moving the cursor to 9.
C5_Witness ==
    /\ pc = "update" /\ term_size[1] = 10 /\ paging.items_len = 25 /\ sel = 9
    /\ paging.current_page = 1

---------------------------------------------------------------------------
(* The keys of the list prompts (C6 .. C10) *)

\* C6 (as claimed): with paging active Right goes to page (p + 1) mod pages
\* and Left to page (p - 1 + pages) mod pages, and the cursor becomes the first
\* index of that page, an index of an item; with paging inactive neither the
\* cursor nor the page changes.
C6_PageKeysWrap ==
    [][/\ KeyRight =>
            IF paging.active
            THEN /\ paging'.current_page = (paging.current_page + 1) % paging.pages
                 /\ sel' = paging'.current_page * paging.capacity
                 /\ sel' \in 0..(N - 1)
            ELSE sel' = sel /\ paging'.current_page = paging.current_page
       /\ KeyLeft =>
            IF paging.active
            THEN /\ paging'.current_page =
                        (paging.current_page - 1 + paging.pages) % paging.pages
                 /\ sel' = paging'.current_page * paging.capacity
                 /\ sel' \in 0..(N - 1)
            ELSE sel' = sel /\ paging'.current_page = paging.current_page]_vars

\* C7 (as claimed): when update found the activity of paging changed, in
\* either direction, the erase before the next redraw takes away height +
\* prompt_height lines, the header with the rest.
C7_FullClearOnFlip ==
    [][pc = "clear" /\ paging.activity_transition /\ pc' = "render"
          => ErasedBy(Tracked)]_vars

RECURSIVE DownTimes(_, _, _)
DownTimes(s, n, k) == IF k = 0 THEN s ELSE DownTimes(DownFrom(s, n), n, k - 1)

\* C8: Down sets the cursor to (cursor + 1) mod N and Up to (cursor - 1 + N)
\* mod N; from the sentinel Down enters at 0 and Up at N - 1; N Downs from the
\* cursor on any item return to it, and one Up from 0 lands on N - 1.
C8_DownUpWrap ==
    /\ [][/\ KeyDown => sel' = IF sel = NoSel THEN 0 ELSE (sel + 1) % N
          /\ KeyUp => sel' = IF sel = NoSel THEN N - 1 ELSE (sel - 1 + N) % N]_vars
    /\ [][KeyUp /\ sel = 0 => sel' = N - 1]_vars
    /\ [](pc = "read" /\ sel \in 0..(N - 1) => DownTimes(sel, N, N) = sel)

\* Up pressed first in a Select of three items without a default: the cursor
\* entered at the last item.
C8_Witness ==
    /\ cfg.kind = "select" /\ cfg.default = NoSel /\ N = 3
    /\ pc = "update" /\ sel = 2 /\ nav.net = 2 /\ ~nav.paged

\* C9: Select returns on Enter or Space the cursor as it is; from a valid
\* default d and Downs and Ups of net displacement k that is (d + k) mod N.
C9_ReturnsCursor ==
    /\ [][(KeyEnter \/ KeySpace) /\ cfg.kind = "select" /\ pc' = "done"
            /\ result'.tag = "index" => result'.value = sel]_vars
    /\ [](cfg.kind = "select" /\ result.tag = "index"
            /\ cfg.default \in 0..(N - 1) /\ ~nav.paged
          => result.value = (cfg.default + nav.net) % N)

\* Default 0, Down, Down, Enter: 2.
C9_Witness ==
    /\ cfg.kind = "select" /\ cfg.default = 0
    /\ nav.net = 2 /\ ~nav.paged
    /\ result = [tag |-> "index", value |-> 2]

\* C10 (as claimed): Select does not end with a selection while the cursor is
\* the sentinel, and what it returns is the index of an item, whatever
\* default() was given.
C10_ReturnsItemIndex ==
    cfg.kind = "select" =>
        /\ result.tag # "panic"
        /\ result.tag = "index" => sel # NoSel /\ result.value \in 0..(N - 1)

\* C11: in Select and MultiSelect Escape/q ends the interaction without an
\* answer only when quitting is allowed; otherwise the key changes neither
\* cursor nor flags nor page and the loop goes on, so that without quitting the
\* interaction ends only on a confirming key and interact_on never makes its
\* "Quit not allowed" error.
C11_QuitOnlyWhenAllowed ==
    /\ [][KeyEscape /\ cfg.kind \in {"select", "multi"} =>
            IF cfg.allow_quit
            THEN pc' = "done" /\ result'.tag = "quit"
            ELSE /\ sel' = sel /\ checked' = checked /\ paging' = paging
                 /\ result' = result /\ pc' = "update"]_vars
    /\ [][pc = "read" /\ pc' = "done" /\ ~cfg.allow_quit => KeyEnter \/ KeySpace]_vars
    /\ [](~cfg.allow_quit => result.tag # "quit" /\ InteractOn(result).tag # "error")

\* A MultiSelect that allows quitting, left by Escape with an item checked.
C11_Witness ==
    /\ cfg.kind = "multi" /\ cfg.allow_quit
    /\ pc = "done" /\ result.tag = "quit"
    /\ \E i \in DOMAIN checked : checked[i] /\ ~cfg.defaults[i]

\* The indices with default XOR (Space pressed on them an odd number of times), ascending.
RECURSIVE ToggledFrom(_)
ToggledFrom(i) ==
    IF i > N THEN <<>>
    ELSE (IF cfg.defaults[i] # nav.odd[i] THEN <<i - 1>> ELSE <<>>) \o ToggledFrom(i + 1)

\* C12: in MultiSelect Space flips checked[cursor] and nothing else, and Enter
\* returns, ascending, the indices whose default was flipped an odd number of
\* times, whatever the path of the cursor.
C12_SpaceTogglesAndEnterReturnsChecked ==
    /\ [][KeySpace /\ cfg.kind = "multi" =>
            /\ sel' = sel
            /\ \A i \in DOMAIN checked : checked'[i] = IF i = sel + 1 THEN ~checked[i] ELSE checked[i]]_vars
    /\ [](cfg.kind = "multi" /\ result.tag = "indices" => result.value = ToggledFrom(1))

\* All defaults false, Space, Down, Down, Space, Enter: [0, 2].
C12_Witness ==
    /\ cfg.kind = "multi" /\ N = 3 /\ \A i \in 1..N : ~cfg.defaults[i]
    /\ nav.net = 2 /\ ~nav.paged
    /\ result = [tag |-> "indices", value |-> <<0, 2>>]

\* C13 (as claimed): in MultiSelect a unchecks every item when all are
\* checked and checks every item otherwise; the cursor stays.
C13_SelectAllToggle ==
    [][KeyA /\ cfg.kind = "multi" =>
          /\ sel' = sel
          /\ checked' = [i \in DOMAIN checked |-> ~(\A j \in DOMAIN checked : checked[j])]]_vars

\* C14: in Sort Space toggles grabbed and leaves cursor and order alone; a
\* Down or Up from slot s to slot s' exchanges order[s] and order[s'] when
\* grabbed and s # s', and leaves order alone when not grabbed; Enter returns
\* order whatever grabbed is.
C14_SortGrabAndSwap ==
    /\ [][KeySpace /\ cfg.kind = "sort" =>
            grabbed' = ~grabbed /\ sel' = sel /\ order' = order]_vars
    /\ [][(KeyDown \/ KeyUp) /\ cfg.kind = "sort" =>
            order' = IF grabbed /\ sel' # sel
                     THEN [i \in DOMAIN order |->
                             IF i = sel + 1 THEN order[sel' + 1]
                             ELSE IF i = sel' + 1 THEN order[sel + 1]
                             ELSE order[i]]
                     ELSE order]_vars
    /\ [][KeyEnter /\ cfg.kind = "sort" =>
            pc' = "done" /\ result' = [tag |-> "order", value |-> order]]_vars

\* Three items, Space, Down, Enter: [1, 0, 2].
C14_Witness ==
    /\ cfg.kind = "sort" /\ N = 3 /\ grabbed /\ sel = 1
    /\ nav.net = 1 /\ ~nav.paged
    /\ result = [tag |-> "order", value |-> <<1, 0, 2>>]

---------------------------------------------------------------------------
(* FuzzySelect and MultiFuzzySelect                                        *)
(*                                                                         *)
(* A string is the sequence of its characters.  Of these two prompts the   *)
(* model keeps the query, the filtered list, the cursor and the window on  *)
(* the list; `sel` holds FuzzySelect's sel and MultiFuzzySelect's          *)
(* cursor_position.                                                        *)

MaxFuzzyItems == 2
MaxQuery == 2
MaxFuzzyRows == 3

Alphabet == {"a", "b"}
FuzzyTexts == {<<"b">>, <<"a", "b">>}
FuzzyItemLists == UNION {[1..n -> FuzzyTexts] : n \in 1..MaxFuzzyItems}

\* The pattern from its i-th character on is found, in order, in the text
\* from its j-th character on.
RECURSIVE FoundFrom(_, _, _, _)
FoundFrom(pattern, i, text, j) ==
    IF i > Len(pattern) THEN TRUE
    ELSE IF j > Len(text) THEN FALSE
    ELSE IF text[j] = pattern[i] THEN FoundFrom(pattern, i + 1, text, j + 1)
    ELSE FoundFrom(pattern, i, text, j + 1)

\* Where the first character of the pattern is first found in the text.
RECURSIVE FirstAt(_, _, _)
FirstAt(c, text, j) ==
    IF j > Len(text) \/ text[j] = c THEN j ELSE FirstAt(c, text, j + 1)

\* matcher.fuzzy_match(item, pattern): a score when the characters of the
\* pattern occur in the item in order, None otherwise; the empty pattern
\* scores 0 on every item.  The score stands in for the matcher's: more for a
\* longer pattern, less for a later start.
NoScore == [some |-> FALSE]
FuzzyMatch(item, pattern) ==
    IF ~FoundFrom(pattern, 1, item, 1) THEN NoScore
    ELSE [some |-> TRUE,
          score |-> IF pattern = <<>> THEN 0
                    ELSE 10 * Len(pattern) - FirstAt(pattern[1], item, 1)]

\* .map(|item| (item, fuzzy_match(..))).filter_map(..): the entries with a score.
Entry(items, i, pattern) ==
    [idx |-> i - 1, item |-> items[i], score |-> FuzzyMatch(items[i], pattern).score]

Matched(items, pattern) == {i \in DOMAIN items : FuzzyMatch(items[i], pattern).some}

\* A faulty sort: worst match first.
SortedByScoreAscending(items, pattern) ==
    LET m == Matched(items, pattern)
    IN  {[k \in 1..Cardinality(m) |-> Entry(items, f[k], pattern)] :
            f \in {g \in [1..Cardinality(m) -> m] :
                     /\ \A a, b \in 1..Cardinality(m) : a # b => g[a] # g[b]
                     /\ \A a, b \in 1..Cardinality(m) :
                           a < b => FuzzyMatch(items[g[a]], pattern).score
                                      <= FuzzyMatch(items[g[b]], pattern).score}}

\* filtered_list.sort_unstable_by(|.., s1|, |.., s2| s2.cmp(&s1)): best match
\* first; entries of equal score come in an order the sort does not promise.
SortedByScore(items, pattern) ==
    LET m == Matched(items, pattern)
    IN  {[k \in 1..Cardinality(m) |-> Entry(items, f[k], pattern)] :
            f \in {g \in [1..Cardinality(m) -> m] :
                     /\ \A a, b \in 1..Cardinality(m) : a # b => g[a] # g[b]
                     /\ \A a, b \in 1..Cardinality(m) :
                           a < b => FuzzyMatch(items[g[a]], pattern).score
                                      >= FuzzyMatch(items[g[b]], pattern).score}}

\* FuzzySelect: default() takes any usize, with_theme leaves it at !0.
\* ignore_casing: "unset" when the builder was not called, else its argument.
FuzzySelectCfgs ==
    [ kind : {"fuzzy"}, items : FuzzyItemLists, allow_quit : BOOLEAN, paged : BOOLEAN,
      default : {NoSel} \cup (0..MaxFuzzyItems), defaults : {<<>>},
      ignore_casing : {"unset"} ]
    \cup [ kind : {"fuzzy"}, items : FuzzyItemLists, allow_quit : {FALSE}, paged : {FALSE},
           default : {0}, defaults : {<<>>}, ignore_casing : {"true", "false"} ]

\* fuzzy_search_is_case_sensitive: false from with_theme, else what
\* ignore_casing stored.
CaseSensitive(c) == c.ignore_casing = "true"

\* chr.to_lowercase()
ToLower(chr) == IF chr = "A" THEN "a" ELSE chr

\* The characters typed: upper case is typed where ignore_casing was called,
\* and there edit.typed remembers the character typed last.
Keyboard(c) == IF c.ignore_casing = "unset" THEN Alphabet ELSE Alphabet \cup {"A"}

\* MultiFuzzySelect: one default per item, the cursor starts at 0.
MultiFuzzySelectCfgs ==
    UNION {[ kind : {"multifuzzy"}, items : {l}, allow_quit : BOOLEAN, paged : {FALSE},
             default : {0}, defaults : [1..Len(l) -> BOOLEAN],
             ignore_casing : {"unset"} ] : l \in FuzzyItemLists}

\* The state before the loop of _interact_on.
FuzzyStart(c, size) ==
    /\ cfg = c
    /\ term_size = size
    /\ sel = c.default
    /\ checked = c.defaults
    /\ edit = [kind |-> c.kind, search_term |-> <<>>, position |-> 0, page |-> 0,
               starting_row |-> 0, capacity |-> Len(c.items), filtered_list |-> <<>>,
               typed |-> ""]
    /\ pc = "redraw"
    /\ result = NoResult
    /\ screen = [pre |-> 0, out |-> 0]
    /\ render = RenderNew
    /\ paging = PagingNew(size, Len(c.items))
    /\ order = <<>>
    /\ grabbed = FALSE
    /\ nav = NoNav

FuzzyInit ==
    \E c \in FuzzySelectCfgs \cup MultiFuzzySelectCfgs, rows \in 3..MaxFuzzyRows :
        FuzzyStart(c, <<rows, 16>>)

Max(a, b) == IF a > b THEN a ELSE b

\* String::insert(idx, ch) and String::remove(idx), idx counted from 0.
StrInsert(str, idx, ch) == SubSeq(str, 1, idx) \o <<ch>> \o SubSeq(str, idx + 1, Len(str))
StrRemove(str, idx) == SubSeq(str, 1, idx) \o SubSeq(str, idx + 2, Len(str))

\* A faulty lookup: the last item with that text.
RECURSIVE LastPositionFrom(_, _, _)
LastPositionFrom(items, text, i) ==
    IF i < 1 THEN NoSel
    ELSE IF items[i] = text THEN i - 1
    ELSE LastPositionFrom(items, text, i - 1)
LastPosition(items, text) == LastPositionFrom(items, text, Len(items))

\* self.items.iter().position(|item| item.eq(text)): the first item with that text.
RECURSIVE PositionFrom(_, _, _)
PositionFrom(items, text, i) ==
    IF i > Len(items) THEN NoSel
    ELSE IF items[i] = text THEN i - 1
    ELSE PositionFrom(items, text, i + 1)
Position(items, text) == PositionFrom(items, text, 1)

\* (term.size().0 as usize) / self.lines_per_item - self.offset, with the
\* lines_per_item 1 and offset 1 of with_theme.
FuzzyCapacity(size) == size[1] \div 1 - 1

\* (term.size().0 as usize).max(3) - 2
VisibleTermRows(size) == Max(size[1], 3) - 2

\* The top of the loop: the list is filtered and sorted again, MultiFuzzySelect
\* brings its cursor back onto the list, and the items in the window are written.
FuzzyRedraw ==
    /\ pc = "redraw"
    /\ \E fl \in SortedByScore(cfg.items, edit.search_term) :
          /\ edit' = [edit EXCEPT !.filtered_list = fl,
                                  !.capacity = IF cfg.paged THEN FuzzyCapacity(term_size)
                                               ELSE Len(fl)]
          /\ sel' = IF cfg.kind = "multifuzzy" THEN Min(sel, Max(Len(fl), 1) - 1) ELSE sel
    /\ pc' = "read"
    /\ UNCHANGED <<cfg, term_size, screen, paging, render, checked, order, grabbed, result, nav>>

\* The rows written by the redraw: skip(page * capacity).take(capacity) in
\* FuzzySelect, skip(starting_row).take(visible_term_rows) in MultiFuzzySelect.
Displayed ==
    LET fl == edit.filtered_list
        first == IF cfg.kind = "fuzzy" THEN edit.page * edit.capacity ELSE edit.starting_row
        count == IF cfg.kind = "fuzzy" THEN edit.capacity ELSE VisibleTermRows(term_size)
    IN  SubSeq(fl, first + 1, Min(first + count, Len(fl)))

\* usize::MAX / capacity: a page beyond every list.
FarPage == 1000

\* FuzzySelect, the end of the loop: the page follows sel when sel is outside
\* the window; !0 is above every bound.
PageAfter(e, s) ==
    IF Len(e.filtered_list) > 0
       /\ (s = NoSel \/ s < e.page * e.capacity \/ s >= (e.page + 1) * e.capacity)
    THEN IF s = NoSel THEN FarPage ELSE s \div e.capacity
    ELSE e.page

\* (page + 1) * capacity leaves usize once the page is usize::MAX / capacity
\* and is evaluated when sel is !0.
PageOverflows(e, s) == Len(e.filtered_list) > 0 /\ s = NoSel /\ e.page = FarPage

\* What follows the match: in FuzzySelect the page is brought to sel (a build
\* that checks overflow panics where a build that wraps goes on); then both
\* prompts go round the loop.
FuzzyLoopEnd(e, s) ==
    \/ /\ edit' = IF cfg.kind = "fuzzy" THEN [e EXCEPT !.page = PageAfter(e, s)] ELSE e
       /\ sel' = s
       /\ pc' = "redraw"
       /\ UNCHANGED result
    \/ /\ cfg.kind = "fuzzy" /\ PageOverflows(e, s)
       /\ edit' = e
       /\ sel' = s
       /\ pc' = "done"
       /\ result' = [tag |-> "panic"]

FuzzyRest == UNCHANGED <<cfg, term_size, screen, paging, render, order, grabbed, nav>>

FuzzyReturn(res) ==
    /\ result' = res
    /\ pc' = "done"
    /\ UNCHANGED <<edit, sel, checked>>

\* Key::Escape if allow_quit: FuzzySelect returns None, MultiFuzzySelect an
\* empty selection.
FuzzyEscape ==
    /\ pc = "read"
    /\ IF cfg.allow_quit
       THEN FuzzyReturn(IF cfg.kind = "fuzzy" THEN [tag |-> "quit"]
                        ELSE [tag |-> "indices", value |-> <<>>])
       ELSE FuzzyLoopEnd(edit, sel) /\ UNCHANGED checked
    /\ FuzzyRest

\* Key::ArrowUp (| Key::BackTab) on a list that is not empty.
FuzzyArrowUp ==
    /\ pc = "read"
    /\ LET len == Len(edit.filtered_list)
           visible == VisibleTermRows(term_size)
       IN  IF len = 0 THEN FuzzyLoopEnd(edit, sel)
           ELSE IF cfg.kind = "fuzzy"
           THEN FuzzyLoopEnd(edit, IF sel = NoSel THEN len - 1 ELSE (sel - 1 + len) % len)
           ELSE FuzzyLoopEnd(
                    [edit EXCEPT !.starting_row =
                        IF sel = 0 THEN Max(len, visible) - visible
                        ELSE IF sel = edit.starting_row THEN edit.starting_row - 1
                        ELSE edit.starting_row],
                    (sel + Max(len, 1) - 1) % len)
    /\ UNCHANGED checked
    /\ FuzzyRest

\* Key::ArrowDown (| Key::Tab) on a list that is not empty.
FuzzyArrowDown ==
    /\ pc = "read"
    /\ LET len == Len(edit.filtered_list)
           visible == VisibleTermRows(term_size)
       IN  IF len = 0 THEN FuzzyLoopEnd(edit, sel)
           ELSE IF cfg.kind = "fuzzy"
           THEN FuzzyLoopEnd(edit, IF sel = NoSel THEN 0 ELSE (sel + 1) % len)
           ELSE FuzzyLoopEnd(
                    [edit EXCEPT !.starting_row =
                        IF sel = len - 1 THEN 0
                        ELSE IF sel = visible + edit.starting_row THEN edit.starting_row + 1
                        ELSE edit.starting_row],
                    (sel + 1) % len)
    /\ UNCHANGED checked
    /\ FuzzyRest

\* Key::ArrowLeft if position > 0
FuzzyArrowLeft ==
    /\ pc = "read"
    /\ FuzzyLoopEnd(IF edit.position > 0 THEN [edit EXCEPT !.position = @ - 1] ELSE edit, sel)
    /\ UNCHANGED checked
    /\ FuzzyRest

\* Key::ArrowRight if position < search_term.len()
FuzzyArrowRight ==
    /\ pc = "read"
    /\ FuzzyLoopEnd(IF edit.position < Len(edit.search_term)
                    THEN [edit EXCEPT !.position = @ + 1] ELSE edit, sel)
    /\ UNCHANGED checked
    /\ FuzzyRest

\* Key::Enter on a list that is not empty. FuzzySelect indexes
\* filtered_list[sel] and returns the position of that text among the items;
\* MultiFuzzySelect returns the checked indices.
FuzzyEnter ==
    /\ pc = "read"
    /\ LET fl == edit.filtered_list
       IN  IF Len(fl) = 0 THEN FuzzyLoopEnd(edit, sel) /\ UNCHANGED checked
           ELSE IF cfg.kind = "fuzzy"
           THEN IF sel = NoSel \/ sel >= Len(fl)
                THEN FuzzyReturn([tag |-> "panic"])
                ELSE FuzzyReturn([tag |-> "index", value |-> Position(cfg.items, fl[sel + 1].item)])
           ELSE FuzzyReturn([tag |-> "indices", value |-> CheckedIndices(checked)])
    /\ FuzzyRest

\* Key::Backspace if position > 0
FuzzyBackspace ==
    /\ pc = "read"
    /\ FuzzyLoopEnd(IF edit.position > 0
                    THEN [edit EXCEPT !.position = @ - 1,
                                      !.search_term = StrRemove(@, edit.position - 1)]
                    ELSE edit, sel)
    /\ UNCHANGED checked
    /\ FuzzyRest

\* MultiFuzzySelect, Key::Char(' '): the first item with the text under the
\* cursor is toggled and the search term is emptied.
FuzzySpace ==
    /\ pc = "read"
    /\ cfg.kind = "multifuzzy"
    /\ LET fl == edit.filtered_list
           at == IF sel < Len(fl) THEN Position(cfg.items, fl[sel + 1].item) ELSE NoSel
       IN  checked' = IF at # NoSel THEN [checked EXCEPT ![at + 1] = ~@] ELSE checked
    /\ FuzzyLoopEnd([edit EXCEPT !.search_term = <<>>, !.position = 0], sel)
    /\ FuzzyRest

\* Key::Char(chr) if !chr.is_ascii_control(): the character goes in at the
\* text cursor; FuzzySelect then sets sel = 0, MultiFuzzySelect leaves
\* cursor_position alone.
FuzzyChar ==
    /\ pc = "read"
    /\ Len(edit.search_term) < MaxQuery
    /\ \E chr \in Keyboard(cfg) :
          FuzzyLoopEnd([edit EXCEPT !.search_term =
                                        StrInsert(@, edit.position,
                                                  IF cfg.kind = "fuzzy" /\ ~CaseSensitive(cfg)
                                                  THEN ToLower(chr) ELSE chr),
                                    !.typed = IF cfg.ignore_casing = "unset" THEN @ ELSE chr,
                                    !.position = @ + 1],
                       IF cfg.kind = "fuzzy" THEN 0 ELSE sel)
    /\ UNCHANGED checked
    /\ FuzzyRest

\* _ => {}
FuzzyOther ==
    /\ pc = "read"
    /\ FuzzyLoopEnd(edit, sel)
    /\ UNCHANGED checked
    /\ FuzzyRest

FuzzyNext ==
    \/ FuzzyRedraw
    \/ FuzzyEscape
    \/ FuzzyArrowUp
    \/ FuzzyArrowDown
    \/ FuzzyArrowLeft
    \/ FuzzyArrowRight
    \/ FuzzyEnter
    \/ FuzzyBackspace
    \/ FuzzySpace
    \/ FuzzyChar
    \/ FuzzyOther

SpecFuzzy == FuzzyInit /\ [][FuzzyNext]_vars

---------------------------------------------------------------------------
(* Claims about FuzzySelect and MultiFuzzySelect *)

C16_InsertResetsCursor ==
    [][FuzzyChar =>
          LET len == Cardinality(Matched(cfg.items, edit'.search_term))
          IN  (IF cfg.kind = "multifuzzy" THEN Min(sel', Max(len, 1) - 1) ELSE sel') = 0]_vars

\* C17: whenever FuzzySelect reads a key and its filtered list is not empty,
\* the cursor is a row of that list (0 <= sel < filtered_list.len()), from the
\* first read on and with or without a configured default; and the prompt
\* never ends in the panic of an index outside the list.
C17_CursorInList ==
    cfg.kind = "fuzzy" =>
        /\ pc = "read" /\ Len(edit.filtered_list) > 0 =>
              sel \in 0..(Len(edit.filtered_list) - 1)
        /\ result.tag # "panic"

\* C18: FuzzySelect's cursor counts rows of the filtered list, and Enter on
\* the entry under the cursor returns the smallest index of the original
\* items whose text equals that entry's text; of two items with the same text
\* the first one's index is returned, whichever of them the cursor was on.
C18_EnterReturnsFirstEqualText ==
    [][FuzzyEnter /\ cfg.kind = "fuzzy" /\ sel \in 0..(Len(edit.filtered_list) - 1) =>
          LET text == edit.filtered_list[sel + 1].item
          IN  /\ pc' = "done"
              /\ result'.tag = "index"
              /\ result'.value \in 0..(Len(cfg.items) - 1)
              /\ cfg.items[result'.value + 1] = text
              /\ \A i \in 1..result'.value : cfg.items[i] # text]_vars

\* The cursor was on the second of two items with the same text; the first
\* one's index came back.
C18_Witness ==
    /\ cfg.kind = "fuzzy" /\ pc = "done"
    /\ Len(cfg.items) = 2 /\ cfg.items[1] = cfg.items[2]
    /\ sel \in 0..(Len(edit.filtered_list) - 1)
    /\ edit.filtered_list[sel + 1].idx = 1
    /\ result = [tag |-> "index", value |-> 0]

---------------------------------------------------------------------------
(* Input::interact_text_on                                                 *)
(*                                                                         *)
(* `edit` holds the locals chars, position and hist_pos of the key loop;   *)
(* `nav` keeps, for the run of insertions and Backspaces that is going on, *)
(* the buffer and cursor before each insertion, the characters inserted    *)
(* and the number of Backspaces since.                                     *)

MaxInput == 3

InputAlphabet == {"a", "b", "c"}

NoText == [some |-> FALSE]
SomeText(t) == [some |-> TRUE, value |-> t]

\* with_initial_text: any text, or none.
InputInitials == {NoText} \cup {SomeText(t) : t \in {<<>>, <<"a">>, <<"b", "a">>}}

\* history_with: no history, an empty one, or one with entries, the latest
\* first.
InputHistories ==
    {[some |-> FALSE], [some |-> TRUE, entries |-> <<>>],
     [some |-> TRUE, entries |-> << <<"a", "b">>, <<"c">> >>]}

\* strict: a validator or a parse that can reject the text.
InputCfgs ==
    [ kind : {"input"}, attended : BOOLEAN, initial_text : InputInitials,
      history : InputHistories, permit_empty : BOOLEAN, has_default : BOOLEAN,
      strict : BOOLEAN ]

\* impl History<String> for VecDeque<String>: read(pos) is get(pos).
HistoryRead(entries, pos) ==
    IF pos < Len(entries) THEN SomeText(entries[pos + 1]) ELSE NoText

NoRun == [fresh |-> FALSE, before |-> <<>>, typed |-> <<>>, erased |-> 0, arrows |-> FALSE]

\* The run after Up or Down: arrows tells that no other key was pressed since
\* the prompt was written.
Arrowed(run) == [NoRun EXCEPT !.arrows = run.fresh \/ run.arrows]

InputInit ==
    /\ cfg \in InputCfgs
    /\ term_size = <<3, 16>>
    /\ edit = [kind |-> "input", chars |-> <<>>, position |-> 0, hist_pos |-> 0]
    /\ pc = "begin"
    /\ result = NoResult
    /\ nav = NoRun
    /\ sel = NoSel
    /\ checked = <<>>
    /\ screen = [pre |-> 0, out |-> 0]
    /\ render = RenderNew
    /\ paging = PagingNew(<<3, 16>>, 0)
    /\ order = <<>>
    /\ grabbed = FALSE

InputRest == UNCHANGED <<cfg, term_size, screen, paging, render, sel, checked, order, grabbed>>

\* The outer loop up to the key loop: an unattended terminal returns the
\* parse of ""; otherwise chars, position and hist_pos start anew, chars from
\* the initial text with the cursor after it.
InputBegin ==
    /\ pc = "begin"
    /\ IF ~cfg.attended
       THEN /\ result' = [tag |-> "text", value |-> <<>>]
            /\ pc' = "done"
            /\ UNCHANGED <<edit, nav>>
       ELSE /\ edit' = [kind |-> "input",
                        chars |-> IF cfg.initial_text.some THEN cfg.initial_text.value ELSE <<>>,
                        position |-> IF cfg.initial_text.some THEN Len(cfg.initial_text.value) ELSE 0,
                        hist_pos |-> 0]
            /\ nav' = [NoRun EXCEPT !.fresh = TRUE]
            /\ pc' = "read"
            /\ UNCHANGED result
    /\ InputRest

\* A faulty Backspace that removes the character after the cursor.
BackspacedAfter(e) ==
    IF e.position > 0
    THEN [e EXCEPT !.position = @ - 1, !.chars = StrRemove(@, e.position)]
    ELSE e

\* Key::Backspace if position > 0
Backspaced(e) ==
    IF e.position > 0
    THEN [e EXCEPT !.position = @ - 1, !.chars = StrRemove(@, e.position - 1)]
    ELSE e

\* Key::Char(chr): chars.insert(position, chr); position += 1
Inserted(e, chr) ==
    [e EXCEPT !.chars = StrInsert(@, e.position, chr), !.position = @ + 1]

\* Key::ArrowLeft if position > 0
MovedLeft(e) == IF e.position > 0 THEN [e EXCEPT !.position = @ - 1] ELSE e

\* A faulty ArrowRight that moves whatever the length.
MovedRightUnguarded(e) == [e EXCEPT !.position = @ + 1]

\* Key::ArrowRight if position < chars.len()
MovedRight(e) == IF e.position < Len(e.chars) THEN [e EXCEPT !.position = @ + 1] ELSE e

\* chars.clear(); *position = 0; then every character of the entry goes in
\* at the cursor.
Loaded(e, previous) == [e EXCEPT !.chars = previous, !.position = Len(previous)]

\* process_up_arrow
UpArrow(e) ==
    IF cfg.history.some /\ HistoryRead(cfg.history.entries, e.hist_pos).some
    THEN [Loaded(e, HistoryRead(cfg.history.entries, e.hist_pos).value)
             EXCEPT !.hist_pos = @ + 1]
    ELSE e

\* A faulty Down that leaves the buffer alone on the way back to no entry.
DownArrowKeepsText(e) ==
    IF ~cfg.history.some \/ e.hist_pos = 0 THEN e
    ELSE LET pos == e.hist_pos - 1
             e1 == [e EXCEPT !.hist_pos = pos]
         IN  IF pos > 0 /\ HistoryRead(cfg.history.entries, pos - 1).some
             THEN Loaded(e1, HistoryRead(cfg.history.entries, pos - 1).value)
             ELSE e1

\* process_down_arrow
DownArrow(e) ==
    IF ~cfg.history.some THEN e
    ELSE IF e.hist_pos = 0 THEN Loaded(e, <<>>)
    ELSE LET pos == e.hist_pos - 1
             e1 == [e EXCEPT !.hist_pos = pos]
         IN  IF pos = 0 THEN Loaded(e1, <<>>)
             ELSE IF HistoryRead(cfg.history.entries, pos - 1).some
             THEN Loaded(e1, HistoryRead(cfg.history.entries, pos - 1).value)
             ELSE e1

InputKey(e, run) ==
    /\ pc = "read"
    /\ edit' = e
    /\ nav' = run
    /\ pc' = "read"
    /\ UNCHANGED result
    /\ InputRest

InputBackspace ==
    InputKey(Backspaced(edit),
             IF edit.position > 0 /\ nav.erased < Len(nav.typed)
             THEN [nav EXCEPT !.fresh = FALSE, !.arrows = FALSE, !.erased = @ + 1]
             ELSE NoRun)

InputChar ==
    /\ Len(edit.chars) < MaxInput
    /\ \E chr \in InputAlphabet :
          InputKey(Inserted(edit, chr),
                   LET here == [chars |-> edit.chars, position |-> edit.position]
                   IN  IF nav.erased > 0
                       THEN [NoRun EXCEPT !.before = <<here>>, !.typed = <<chr>>]
                       ELSE [nav EXCEPT !.fresh = FALSE, !.arrows = FALSE,
                                        !.before = Append(@, here),
                                        !.typed = Append(@, chr)])

InputArrowLeft == InputKey(MovedLeft(edit), NoRun)

InputArrowRight == InputKey(MovedRight(edit), NoRun)

InputArrowUp == InputKey(UpArrow(edit), Arrowed(nav))

InputArrowDown == InputKey(DownArrow(edit), Arrowed(nav))

\* _ => ()
InputOther == InputKey(edit, NoRun)

\* Key::Unknown
InputUnknown ==
    /\ pc = "read"
    /\ result' = [tag |-> "error", value |-> "Not a terminal"]
    /\ pc' = "done"
    /\ UNCHANGED <<edit, nav>>
    /\ InputRest

\* Key::Enter => break, and what follows the key loop: the default for an
\* empty buffer, the prompt again for an empty buffer that is not permitted
\* or a text that is rejected, the text otherwise.
InputEnter ==
    /\ pc = "read"
    /\ \/ /\ edit.chars = <<>> /\ cfg.has_default
          /\ result' = [tag |-> "default"]
          /\ pc' = "done"
       \/ /\ edit.chars = <<>> /\ ~cfg.has_default /\ ~cfg.permit_empty
          /\ pc' = "begin"
          /\ UNCHANGED result
       \/ /\ edit.chars # <<>> \/ (~cfg.has_default /\ cfg.permit_empty)
          /\ result' = [tag |-> "text", value |-> edit.chars]
          /\ pc' = "done"
       \/ /\ cfg.strict
          /\ edit.chars # <<>> \/ cfg.has_default \/ cfg.permit_empty
          /\ pc' = "begin"
          /\ UNCHANGED result
    /\ UNCHANGED <<edit, nav>>
    /\ InputRest

InputNext ==
    \/ InputBegin
    \/ InputBackspace
    \/ InputChar
    \/ InputArrowLeft
    \/ InputArrowRight
    \/ InputArrowUp
    \/ InputArrowDown
    \/ InputEnter
    \/ InputUnknown
    \/ InputOther

SpecInput == InputInit /\ [][InputNext]_vars

---------------------------------------------------------------------------
(* Claims about Input *)

\* C19: in Input::interact_text the edit cursor is never outside the buffer:
\* 0 <= position <= chars.len() after every sequence of insertions,
\* Backspaces, Left, Right and history Up and Down; and before the first key
\* the buffer is the initial text with the cursor after it, or empty with the
\* cursor at 0 when no initial text is configured.
C19_CursorWithinBuffer ==
    /\ edit.position \in 0..Len(edit.chars)
    /\ pc = "read" /\ nav.fresh =>
          IF cfg.initial_text.some
          THEN edit.chars = cfg.initial_text.value /\ edit.position = Len(edit.chars)
          ELSE edit.chars = <<>> /\ edit.position = 0

\* Two steps up the history replaced a two character initial text by the one
\* character entry, and Left took the cursor to its front.
C19_Witness ==
    /\ pc = "read"
    /\ cfg.initial_text.some /\ Len(cfg.initial_text.value) = 2
    /\ edit.hist_pos = 2
    /\ edit.chars = <<"c">>
    /\ edit.position = 0

\* C20: k characters inserted at the cursor and then k Backspaces leave the
\* buffer and the cursor as they were before the first insertion (each
\* Backspace of the run undoes the latest insertion not yet undone); "abc"
\* typed into an empty buffer and three Backspaces leave an empty buffer with
\* the cursor at 0.
C20_InsertThenBackspaceRestores ==
    /\ [][InputBackspace /\ nav.erased < Len(nav.typed) =>
             LET was == nav.before[Len(nav.typed) - nav.erased]
             IN  edit'.chars = was.chars /\ edit'.position = was.position]_vars
    /\ [](/\ nav.typed = <<"a", "b", "c">> /\ nav.erased = 3
          /\ nav.before[1] = [chars |-> <<>>, position |-> 0]
          => edit.chars = <<>> /\ edit.position = 0)

\* "abc" typed into an empty buffer, then three Backspaces.
C20_Witness ==
    /\ pc = "read"
    /\ nav.typed = <<"a", "b", "c">> /\ nav.erased = 3
    /\ nav.before[1] = [chars |-> <<>>, position |-> 0]
    /\ edit.chars = <<>> /\ edit.position = 0

---------------------------------------------------------------------------
(* Input: what follows a submitted line                                    *)
(*                                                                         *)
(* interact_text_on and interact_on share the outer loop: the prompt is    *)
(* written, a line is read (by the key loop above, or by read_line), the   *)
(* screen is cleared and the line is turned into the answer, or into an    *)
(* error line and another round.  `edit` holds the line and the history,   *)
(* `screen` the rows the prompt has printed (the last one is the row of    *)
(* the cursor), `nav` the calls made for the latest line.                  *)

MaxLine == 2
MaxValidators == 2

LineAlphabet == {"0", "7", "x"}
Digits == {"0", "7"}

Lines == UNION {[1..n -> LineAlphabet] : n \in 0..MaxLine}

\* The target types T of the model: String, and u8 for a parse that can fail.
Targets == {"String", "u8"}

DigitValue(ch) == IF ch = "7" THEN 7 ELSE 0

\* The number a text of digits stands for, as from_str_radix reads it.
RECURSIVE Number(_, _)
Number(text, n) ==
    IF n = 0 THEN 0 ELSE 10 * Number(text, n - 1) + DigitValue(text[n])

DigitChar(d) ==
    CASE d = 0 -> "0" [] d = 1 -> "1" [] d = 2 -> "2" [] d = 3 -> "3" [] d = 4 -> "4"
      [] d = 5 -> "5" [] d = 6 -> "6" [] d = 7 -> "7" [] d = 8 -> "8" [] OTHER -> "9"

\* Display of a number: its decimal digits.
RECURSIVE Decimal(_)
Decimal(n) == IF n < 10 THEN <<DigitChar(n)>> ELSE Append(Decimal(n \div 10), DigitChar(n % 10))

StringValue(text) == [type |-> "String", n |-> 0, text |-> text]
NumberValue(n) == [type |-> "u8", n |-> n, text |-> <<>>]

\* value.to_string()
ValueToString(value) == IF value.type = "u8" THEN Decimal(value.n) ELSE value.text

\* input.parse::<T>(): every text is a String; a u8 is a text of one or more
\* digits that stands for at most u8::MAX.
U8Max == 255

Parse(target, text) ==
    IF target = "String" THEN [ok |-> TRUE, value |-> StringValue(text)]
    ELSE IF text = <<>> THEN [ok |-> FALSE, err |-> "empty"]
    ELSE IF \E i \in DOMAIN text : text[i] \notin Digits THEN [ok |-> FALSE, err |-> "invalid"]
    ELSE IF Number(text, Len(text)) > U8Max THEN [ok |-> FALSE, err |-> "too large"]
    ELSE [ok |-> TRUE, value |-> NumberValue(Number(text, Len(text)))]

\* The validators of the model, by name: "short" rejects a value shown in
\* fewer than two characters, "nozero" a value shown with a 0.
Validators == {"short", "nozero"}

Rejects(validator, value) ==
    IF validator = "short" THEN Len(ValueToString(value)) < 2
    ELSE \E i \in DOMAIN ValueToString(value) : ValueToString(value)[i] = "0"

\* The lines of a message: the message of "nozero" has a line break, the
\* others (those of the parse among them) are one line.
MessageLines(err) == IF err = "nozero" THEN 2 ELSE 1

\* A faulty chain that asks the newest validator first.
RECURSIVE ChainNewestFirst(_, _, _)
ChainNewestFirst(validators, n, value) ==
    IF n = 0 THEN [err |-> "", calls |-> <<>>]
    ELSE IF Rejects(validators[n], value)
    THEN [err |-> validators[n], calls |-> <<validators[n]>>]
    ELSE LET old == ChainNewestFirst(validators, n - 1, value)
         IN  [err |-> old.err, calls |-> <<validators[n]>> \o old.calls]

\* self.validator after n calls of validate_with: the closure asks the
\* closure it replaced and returns its error; only without one does it ask the
\* validator registered with it.  err is "" for None.
RECURSIVE Chain(_, _, _)
Chain(validators, n, value) ==
    IF n = 0 THEN [err |-> "", calls |-> <<>>]
    ELSE LET old == Chain(validators, n - 1, value)
         IN  IF old.err # "" THEN old
             ELSE [err |-> IF Rejects(validators[n], value) THEN validators[n] ELSE "",
                   calls |-> Append(old.calls, validators[n])]

\* default(value): none, or a value of the target type.
NoValue == [some |-> FALSE]
Defaults(target) ==
    {NoValue} \cup {[some |-> TRUE, value |-> Parse(target, t).value] :
                       t \in {<<"0">>, <<"7", "7">>}}

AskCfgs ==
    UNION {[ kind : {"ask"}, mode : {"interact_text", "interact"}, target : {t},
             attended : BOOLEAN, default : Defaults(t), permit_empty : BOOLEAN,
             history : BOOLEAN,
             validators : UNION {[1..n -> Validators] : n \in 0..MaxValidators} ] :
           t \in Targets}

\* The rows of the terminal, each named after what is on it; the last row is
\* the one the cursor is on.
NoRows == [rows |-> <<"blank">>, foreign |-> 0]

\* term.write_str(text) for a text without a line break.
RowsWriteStr(scr, what) == [scr EXCEPT !.rows[Len(scr.rows)] = what]

\* term.write_line(text) for a text of k lines, the cursor on an empty row.
RowsWriteLine(scr, what, k) ==
    [scr EXCEPT !.rows = SubSeq(@, 1, Len(@) - 1) \o [i \in 1..k |-> what] \o <<"blank">>]

\* The line break the terminal echoes when read_line ends.
RowsNewline(scr) == [scr EXCEPT !.rows = Append(@, "blank")]

\* term.clear_line()
RowsClearLine(scr) == [scr EXCEPT !.rows[Len(scr.rows)] = "blank"]

\* term.clear_last_lines(n), the cursor on an empty row: the n rows above it
\* are erased and the cursor goes to the first of them; rows above those the
\* prompt printed are foreign.
RowsClearLastLines(scr, n) ==
    LET own == Min(n, Len(scr.rows) - 1)
    IN  [rows |-> SubSeq(scr.rows, 1, Len(scr.rows) - 1 - own) \o <<"blank">>,
         foreign |-> Min(scr.foreign + (n - own), MaxScreen)]

\* A faulty count that takes the row of the prompt for a finished line.
WriteFormattedStrCounted(r, text) == [r EXCEPT !.height = @ + Len(text)]

\* write_formatted_str: only the line breaks of the text count.
WriteFormattedStr(r, text) == [r EXCEPT !.height = @ + Newlines(text)]

\* add_line
AddLine(r) == [r EXCEPT !.height = @ + 1]

Event(op, arg) == [op |-> op, arg |-> arg]

Validated(calls) == [i \in 1..Len(calls) |-> Event("validate", calls[i])]

\* A faulty default that is returned unasked.
DefaultUnchecked(c) == [err |-> "", calls |-> <<>>]

\* validator(&default)
DefaultVerdict(c) == Chain(c.validators, Len(c.validators), c.default.value)

\* A faulty write that takes every parsed value.
WrittenOnParse(parsed, verdict) == parsed.ok

\* self.write_history(&value) is reached by a parsed value no validator
\* rejected.
Written(parsed, verdict) == parsed.ok /\ verdict.err = ""

Again(message, events, write, value) ==
    [tag |-> "again", message |-> message, events |-> events, write |-> write,
     value |-> value, from |-> "", shown |-> <<>>]

\* What the code after the line does with it: the default for an empty line,
\* another round for an empty line that is not permitted, else the parse and
\* then the validators.
Outcome(c, line) ==
    LET parsed == Parse(c.target, line)
        none == StringValue(<<>>)
    IN  IF line = <<>> /\ c.default.some
        THEN LET verdict == DefaultVerdict(c)
             IN  IF verdict.err # ""
                 THEN Again(verdict.err,
                            Validated(verdict.calls) \o <<Event("error", verdict.err)>>,
                            FALSE, none)
                 ELSE [tag |-> "return", message |-> "",
                       events |-> Validated(verdict.calls) \o <<Event("return", "")>>,
                       write |-> FALSE, value |-> c.default.value, from |-> "default",
                       shown |-> ValueToString(c.default.value)]
        ELSE IF line = <<>> /\ ~c.permit_empty
        THEN Again("", <<>>, FALSE, none)
        ELSE IF ~parsed.ok
        THEN Again(parsed.err, <<Event("parse", ""), Event("error", "parse")>>, FALSE, none)
        ELSE LET verdict == Chain(c.validators, Len(c.validators), parsed.value)
                 write == Written(parsed, verdict)
                 events == <<Event("parse", "")>> \o Validated(verdict.calls)
                 wrote == IF write THEN <<Event("write", "")>> ELSE <<>>
             IN  IF verdict.err # ""
                 THEN Again(verdict.err, events \o <<Event("error", verdict.err)>> \o wrote,
                            write, parsed.value)
                 ELSE [tag |-> "return", message |-> "",
                       events |-> events \o wrote \o <<Event("return", "")>>,
                       write |-> write, value |-> parsed.value, from |-> "input",
                       shown |-> line]

AskInit ==
    /\ cfg \in {c \in AskCfgs : c.mode = "interact" => c.attended /\ ~c.history}
    /\ term_size = <<3, 16>>
    /\ edit = [kind |-> "ask", input |-> <<>>, hist |-> <<>>, erred |-> FALSE]
    /\ pc = "prompt"
    /\ result = NoResult
    /\ nav = <<>>
    /\ screen = NoRows
    /\ render = RenderNew
    /\ sel = NoSel
    /\ checked = <<>>
    /\ paging = PagingNew(<<3, 16>>, 0)
    /\ order = <<>>
    /\ grabbed = FALSE

AskRest == UNCHANGED <<cfg, term_size, paging, sel, checked, order, grabbed>>

\* The top of the outer loop: the prompt is written; interact_text_on then
\* returns the parse of "" on a terminal without a user.
AskPrompt ==
    /\ pc = "prompt"
    /\ screen' = RowsWriteStr(screen, "prompt")
    /\ render' = WriteFormattedStr(render, ShortText(1))
    /\ IF cfg.mode = "interact_text" /\ ~cfg.attended
       THEN /\ result' = IF Parse(cfg.target, <<>>).ok
                         THEN [tag |-> "ok", value |-> Parse(cfg.target, <<>>).value,
                               from |-> "unattended"]
                         ELSE [tag |-> "panic"]
            /\ pc' = "done"
       ELSE /\ pc' = "read"
            /\ UNCHANGED result
    /\ UNCHANGED <<edit, nav>>
    /\ AskRest

\* A line is submitted (Enter in the key loop, or read_line) and dealt with
\* (edit.erred remembers that some line of the interaction was rejected):
\* the row of the cursor and the rows the renderer counts are erased, then
\* the answer is written and returned, or an error line is written and the
\* loop goes round.
AskSubmit ==
    /\ pc = "read"
    /\ \E line \in Lines :
          LET lined == cfg.mode = "interact"
              r1 == IF lined THEN AddLine(render) ELSE render
              s1 == RowsClearLine(IF lined THEN RowsNewline(screen) ELSE screen)
              s2 == RowsClearLastLines(s1, ClearLines(r1))
              r2 == Clear(r1)
              o  == Outcome(cfg, line)
              keeps == cfg.mode = "interact_text" /\ cfg.history /\ o.write
          IN  /\ edit' = [edit EXCEPT !.input = line,
                                      !.hist = IF keeps THEN Append(@, o.value) ELSE @,
                                      !.erred = @ \/ (o.tag = "again" /\ o.message # "")]
              /\ nav' = o.events
              /\ IF o.tag = "return"
                 THEN /\ render' = WriteFormattedPrompt(r2, ShortText(1))
                      /\ screen' = RowsWriteLine(s2, "answer", 1)
                      /\ result' = [tag |-> "ok", value |-> o.value, from |-> o.from]
                      /\ pc' = "done"
                 ELSE /\ render' = IF o.message = "" THEN r2
                                   ELSE WriteFormattedLine(r2, ShortText(MessageLines(o.message)))
                      /\ screen' = IF o.message = "" THEN s2
                                   ELSE RowsWriteLine(s2, "error", MessageLines(o.message))
                      /\ pc' = "prompt"
                      /\ UNCHANGED result
    /\ AskRest

\* interact_text_on, Key::Unknown in the key loop.
AskUnknown ==
    /\ pc = "read"
    /\ cfg.mode = "interact_text"
    /\ result' = [tag |-> "error", value |-> "Not a terminal"]
    /\ pc' = "done"
    /\ UNCHANGED <<edit, nav, screen, render>>
    /\ AskRest

AskNext ==
    \/ AskPrompt
    \/ AskSubmit
    \/ AskUnknown

SpecAsk == AskInit /\ [][AskNext]_vars

---------------------------------------------------------------------------
(* Claims about the answer of Input *)

RejectsSome(validators, value) ==
    \E i \in DOMAIN validators : Rejects(validators[i], value)

\* C21: in interact_text and in interact, Enter on an empty line with a
\* default configured returns the default only when every registered
\* validator accepts it; when one rejects it, an error line is written, nothing
\* is returned and the prompt asks again: no returned default is one the
\* chain rejects.
C21_DefaultIsValidated ==
    /\ [](pc = "done" /\ result.tag = "ok" /\ result.from = "default" =>
            /\ result.value = cfg.default.value
            /\ ~RejectsSome(cfg.validators, result.value))
    /\ [][AskSubmit /\ edit'.input = <<>> /\ cfg.default.some
            /\ RejectsSome(cfg.validators, cfg.default.value) =>
               /\ pc' = "prompt" /\ result' = result
               /\ \E i \in DOMAIN screen'.rows : screen'.rows[i] = "error"]_vars

\* The default was submitted to a chain of two validators and rejected: its
\* error line is on the screen and the prompt is asking again.
C21_Witness ==
    /\ cfg.kind = "ask" /\ pc = "read"
    /\ edit.input = <<>> /\ cfg.default.some
    /\ Len(cfg.validators) = 2
    /\ RejectsSome(cfg.validators, cfg.default.value)
    /\ screen.rows[1] = "error"
    /\ result = NoResult

IsValidate(e) == e.op = "validate"
IsError(e) == e.op = "error"

\* The validators called for the latest line, in the order of the calls, and
\* the messages shown for it.
Calls == [i \in 1..Len(SelectSeq(nav, IsValidate)) |-> SelectSeq(nav, IsValidate)[i].arg]
Shown == [i \in 1..Len(SelectSeq(nav, IsError)) |-> SelectSeq(nav, IsError)[i].arg]

\* The value the latest line stands for: the default for an empty line, else
\* what the line parses to.
Submitted ==
    IF edit.input = <<>> /\ cfg.default.some THEN cfg.default
    ELSE IF Parse(cfg.target, edit.input).ok
    THEN [some |-> TRUE, value |-> Parse(cfg.target, edit.input).value]
    ELSE NoValue

\* The first validator, in registration order, that rejects the value; 0 when
\* none does.
FirstRejecting(validators, value) ==
    IF RejectsSome(validators, value)
    THEN CHOOSE i \in DOMAIN validators :
            /\ Rejects(validators[i], value)
            /\ \A j \in 1..(i - 1) : ~Rejects(validators[j], value)
    ELSE 0

\* C22: for every submitted value the validators registered with
\* validate_with are called in registration order; the first one that fails
\* gives the message that is shown, and those registered after it are not
\* called for that value.
C22_ValidatorsInRegistrationOrder ==
    nav # <<>> /\ Submitted.some =>
        LET first == FirstRejecting(cfg.validators, Submitted.value)
        IN  IF first = 0
            THEN Calls = cfg.validators /\ Shown = <<>>
            ELSE Calls = SubSeq(cfg.validators, 1, first) /\ Shown = <<cfg.validators[first]>>

\* Two different validators, the first registered rejects the value: it alone
\* was called and its message is shown.
C22_Witness ==
    /\ cfg.kind = "ask" /\ pc = "read"
    /\ Len(cfg.validators) = 2 /\ cfg.validators[1] # cfg.validators[2]
    /\ Submitted.some
    /\ Rejects(cfg.validators[1], Submitted.value)
    /\ Rejects(cfg.validators[2], Submitted.value)
    /\ Calls = <<cfg.validators[1]>>
    /\ Shown = <<cfg.validators[1]>>

\* C23: for a submitted line the validators are called before the parse, and
\* the parse is tried only once they have accepted; a parse error is
\* therefore never shown for a line the validators have not seen.
C23_ValidateBeforeParse ==
    /\ \A i, j \in DOMAIN nav :
          nav[i].op = "validate" /\ nav[j].op = "parse" => i < j
    /\ cfg.validators # <<>> /\ Shown = <<"parse">> => Len(Calls) = Len(cfg.validators)

ErrorRows(scr) == Cardinality({i \in DOMAIN scr.rows : scr.rows[i] = "error"})

---------------------------------------------------------------------------
(* The public entry points and the terminal operations they make, each of
   which the terminal may fail *)

MaxCallItems == 2
MaxRounds == 2

\* kind "text" is Input::interact_text_on, kind "fuzzy" is FuzzySelect.
\* is_term stands for is_term() and for features().is_attended(); keys says
\* that Select was given keys of its own to leave on.
CallCfgs ==
    [ kind : {"multi"}, entry : {"interact_on", "interact_on_opt"}, keys : {FALSE},
      items : 0..MaxCallItems, is_term : BOOLEAN, clear : BOOLEAN, target : {"String"} ]
    \cup [ kind : {"select"}, entry : {"interact_on", "interact_on_opt"}, keys : BOOLEAN,
           items : 0..MaxCallItems, is_term : BOOLEAN, clear : BOOLEAN, target : {"String"} ]
    \cup [ kind : {"sort"}, entry : {"interact_on"}, keys : {FALSE},
           items : 0..MaxCallItems, is_term : BOOLEAN, clear : BOOLEAN, target : {"String"} ]
    \cup [ kind : {"text"}, entry : {"interact_text_on"}, keys : {FALSE},
           items : {0}, is_term : BOOLEAN, clear : {TRUE}, target : Targets ]
    \cup [ kind : {"fuzzy"}, entry : {"interact_on", "interact_on_opt"}, keys : {FALSE},
           items : 0..MaxCallItems, is_term : {TRUE}, clear : BOOLEAN, target : {"String"} ]

\* The allow_quit an entry point passes on.
AllowQuit(c) == c.entry = "interact_on_opt"

CallErr(what) == [tag |-> "err", value |-> what]
CallOk == [tag |-> "ok"]
Panic == [tag |-> "panic"]

\* What the entry point makes of the result of the inner function:
\* Select::interact_on_opt unwraps it, the others hand an Err on.
Returned(c, inner) ==
    IF c.kind = "select" /\ c.entry = "interact_on_opt" /\ inner.tag = "err"
    THEN Panic
    ELSE inner

\* "".to_owned().parse::<T>().unwrap()
ParseEmptyUnwrap(target) == IF Parse(target, <<>>).ok THEN CallOk ELSE Panic

Tried(op, ok) == [op |-> op, ok |-> ok]

CallInit ==
    /\ cfg \in CallCfgs
    /\ term_size = <<3, 16>>
    /\ edit = [kind |-> "call", round |-> 0, drawn |-> 0, how |-> ""]
    /\ pc = "call"
    /\ result = NoResult
    /\ nav = <<>>
    /\ screen = NoRows
    /\ render = RenderNew
    /\ sel = NoSel
    /\ checked = <<>>
    /\ paging = PagingNew(<<3, 16>>, 0)
    /\ order = <<>>
    /\ grabbed = FALSE

CallRest ==
    UNCHANGED <<cfg, term_size, screen, render, paging, sel, checked, order, grabbed>>

CallReturn(inner) == result' = Returned(cfg, inner) /\ pc' = "done"

\* One operation of the terminal followed by `?`: it succeeds and the code
\* goes on, or it fails and the function returns the error.
TermOp(op, next, e) ==
    \E ok \in BOOLEAN :
        /\ nav' = Append(nav, Tried(op, ok))
        /\ IF ok THEN pc' = next /\ edit' = e /\ UNCHANGED result
                 ELSE CallReturn(CallErr("io")) /\ UNCHANGED edit
        /\ CallRest

\* The statements before the first operation of the terminal.
CallBegin ==
    /\ pc = "call"
    /\ IF cfg.kind = "select" /\ ~cfg.is_term
       THEN CallReturn(CallErr("not a terminal"))
       ELSE IF cfg.kind \in {"select", "multi", "sort"} /\ cfg.items = 0
       THEN CallReturn(CallErr("empty list"))
       ELSE /\ pc' = (IF cfg.kind = "text" THEN "prompt"
                      ELSE IF cfg.kind = "fuzzy" THEN "clear" ELSE "hide")
            /\ UNCHANGED result
    /\ UNCHANGED <<edit, nav>>
    /\ CallRest

\* Select, MultiSelect and Sort hide the cursor once, before the loop;
\* FuzzySelect hides it in every round, after the prompt.
CallHideCursor ==
    /\ pc = "hide"
    /\ TermOp("hide_cursor",
              IF cfg.kind # "fuzzy" THEN "prompt" ELSE IF cfg.items = 0 THEN "key" ELSE "item",
              edit)

CallPrompt ==
    /\ pc = "prompt"
    /\ TermOp("write",
              IF cfg.kind = "text" THEN "flush" ELSE IF cfg.kind = "fuzzy" THEN "hide" ELSE "item",
              [edit EXCEPT !.drawn = 0])

\* One item is written; FuzzySelect flushes after each of them, the others
\* once after the last.
CallItem ==
    /\ pc = "item"
    /\ TermOp("write",
              IF cfg.kind = "fuzzy" THEN "item_flush"
              ELSE IF edit.drawn + 1 = cfg.items THEN "flush" ELSE "item",
              [edit EXCEPT !.drawn = @ + 1])

CallItemFlush ==
    /\ pc = "item_flush"
    /\ TermOp("flush", IF edit.drawn = cfg.items THEN "key" ELSE "item", edit)

\* The flush before the key is read; interact_text_on then leaves on a
\* terminal without a user.
CallFlush ==
    /\ pc = "flush"
    /\ \E ok \in BOOLEAN :
          /\ nav' = Append(nav, Tried("flush", ok))
          /\ IF ~ok THEN CallReturn(CallErr("io"))
             ELSE IF cfg.kind = "text" /\ ~cfg.is_term
             THEN CallReturn(ParseEmptyUnwrap(cfg.target))
             ELSE pc' = "key" /\ UNCHANGED result
    /\ UNCHANGED edit
    /\ CallRest

\* Where the key read leads: a key that ends the prompt goes to its clear or
\* past it, any other key to the work before the next round.
\* FuzzySelect: Enter counts on a list that is not empty, and Escape without
\* clear returns with no further operation.
AfterKey(c, key) ==
    IF c.kind = "text"
    THEN (IF key = "enter" THEN "clear_line" ELSE IF key = "escape" THEN "unknown" ELSE "echo")
    ELSE IF c.kind = "fuzzy"
    THEN (IF key = "enter" /\ c.items > 0 THEN (IF c.clear THEN "clear" ELSE "report")
          ELSE IF key = "escape" /\ AllowQuit(c) THEN (IF c.clear THEN "clear" ELSE "return")
          ELSE "clear")
    ELSE IF key = "enter"
    THEN (IF c.clear THEN "clear" ELSE "report")
    ELSE IF (key = "escape" /\ AllowQuit(c)) \/ (key = "own" /\ c.keys)
    THEN (IF c.kind = "select" \/ c.clear THEN "clear" ELSE "show")
    ELSE "update"

\* How the round ends for that key; a key of Select's own ends it as Escape
\* does.
HowFor(c, key) ==
    IF key = "enter" /\ (c.kind = "fuzzy" => c.items > 0) THEN "enter"
    ELSE IF key = "escape" /\ AllowQuit(c) /\ c.kind # "text" THEN "escape"
    ELSE IF key = "own" /\ c.keys THEN "escape"
    ELSE "move"

\* read_key; in interact_text_on "escape" stands for Key::Unknown.
CallReadKey ==
    /\ pc = "key"
    /\ \E ok \in BOOLEAN :
          /\ nav' = Append(nav, Tried("read_key", ok))
          /\ IF ~ok THEN CallReturn(CallErr("io")) /\ UNCHANGED edit
             ELSE \E key \in {"enter", "escape", "own", "move"} :
                     /\ HowFor(cfg, key) = "move" /\ AfterKey(cfg, key) # "unknown"
                           => edit.round < MaxRounds
                     /\ IF AfterKey(cfg, key) = "unknown"
                        THEN CallReturn(CallErr("not a terminal")) /\ UNCHANGED edit
                        ELSE /\ pc' = AfterKey(cfg, key)
                             /\ edit' = [edit EXCEPT !.how = HowFor(cfg, key),
                                            !.round = IF HowFor(cfg, key) = "move" THEN @ + 1 ELSE @]
                             /\ UNCHANGED result
    /\ CallRest

\* The echo of a typed character and its flush.
CallEcho == pc = "echo" /\ TermOp("write", "echo_flush", edit)
CallEchoFlush == pc = "echo_flush" /\ TermOp("flush", "key", edit)

\* paging.update: clear_last_lines when paging switches on or off.
CallUpdate ==
    /\ pc = "update"
    /\ \E transition \in BOOLEAN :
          IF transition THEN TermOp("clear", "clear", edit)
          ELSE pc' = "clear" /\ UNCHANGED <<edit, nav, result>> /\ CallRest

CallClearLine == pc = "clear_line" /\ TermOp("clear", "clear", edit)

\* render.clear (or clear_preserve_prompt, or term.clear_last_lines); in
\* interact_text_on the line is accepted or rejected after it.
CallClear ==
    /\ pc = "clear"
    /\ IF cfg.kind = "text"
       THEN \E accepted \in BOOLEAN :
               /\ (accepted \/ edit.round < MaxRounds)
               /\ TermOp("clear", IF accepted THEN "report" ELSE "error",
                         [edit EXCEPT !.round = IF accepted THEN @ ELSE @ + 1])
       ELSE TermOp("clear", IF edit.how = "enter" THEN "report"
                             ELSE IF edit.how = "escape"
                             THEN (IF cfg.kind = "fuzzy" THEN "last_flush" ELSE "show")
                             ELSE "prompt", edit)

\* render.error
CallError == pc = "error" /\ TermOp("write", "prompt", edit)

\* The line that reports the answer.
CallReport ==
    /\ pc = "report"
    /\ TermOp("write",
              IF cfg.kind = "text" THEN "last_flush" ELSE IF cfg.kind = "fuzzy" THEN "return"
              ELSE "show", edit)

CallShowCursor == pc = "show" /\ TermOp("show_cursor", "last_flush", edit)

CallLastFlush ==
    /\ pc = "last_flush"
    /\ \E ok \in BOOLEAN :
          /\ nav' = Append(nav, Tried("flush", ok))
          /\ CallReturn(IF ok THEN CallOk ELSE CallErr("io"))
    /\ UNCHANGED edit
    /\ CallRest

\* A return of Ok that no operation of the terminal precedes.
CallReturnOk ==
    /\ pc = "return"
    /\ CallReturn(CallOk)
    /\ UNCHANGED <<edit, nav>>
    /\ CallRest

CallNext ==
    \/ CallBegin
    \/ CallHideCursor
    \/ CallPrompt
    \/ CallItem
    \/ CallItemFlush
    \/ CallFlush
    \/ CallReadKey
    \/ CallEcho
    \/ CallEchoFlush
    \/ CallUpdate
    \/ CallClearLine
    \/ CallClear
    \/ CallError
    \/ CallReport
    \/ CallShowCursor
    \/ CallLastFlush
    \/ CallReturnOk

SpecCall == CallInit /\ [][CallNext]_vars

---------------------------------------------------------------------------
(* Claims about the errors of the entry points *)

\* C25: Select, MultiSelect and Sort called with no item end at once with the
\* empty-list error: before the cursor is hidden, before a line is written and
\* before a key is read.
C25_EmptyListErrorAtOnce ==
    cfg.kind \in {"select", "multi", "sort"} /\ cfg.items = 0 /\ pc # "call" =>
        /\ pc = "done"
        /\ result = CallErr("empty list")
        /\ nav = <<>>

\* C26: on a terminal that is not interactive, Select and Input's
\* interact_text return the not-a-terminal error at once: nothing was written
\* to the terminal and the call does not return Ok.
C26_NotATerminalAtOnce ==
    cfg.kind \in {"select", "text"} /\ ~cfg.is_term =>
        /\ nav = <<>>
        /\ pc = "done" => result = CallErr("not a terminal")

\* C27: an operation of the terminal that fails ends the interaction: the
\* entry point returns that failure as an Err, it does not crash, and no
\* operation of the terminal is tried after the one that failed.
C27_FailureIsReturned ==
    \A i \in DOMAIN nav :
        ~nav[i].ok =>
            /\ i = Len(nav)
            /\ pc = "done"
            /\ result = CallErr("io")

---------------------------------------------------------------------------
(* Claims about the options of the list prompts *)

\* C29: a Select with clear(false) erases no row of the menu when the
\* interaction ends, on a confirming key and on a quitting key alike; with
\* clear(true) the rows erased are the rows the renderer counts.
C29_ClearFalseErasesNothing ==
    [][cfg.kind = "select" /\ pc = "read" /\ pc' = "done" =>
          IF cfg.clear
          THEN /\ render'.height = 0
               /\ result'.tag = "quit" =>
                     screen'.out + screen'.pre =
                        Max(0, screen.out + screen.pre - ClearLines(render))
          ELSE /\ screen'.pre = screen.pre
               /\ screen'.out >= screen.out]_vars

\* C30: ignore_casing(true) has the typed characters lower-cased before they
\* enter the query, ignore_casing(false) keeps them as typed.
C30_IgnoreCasingLowers ==
    [][FuzzyChar /\ cfg.kind = "fuzzy" /\ cfg.ignore_casing # "unset" =>
          edit'.search_term =
             StrInsert(edit.search_term, edit.position,
                       IF cfg.ignore_casing = "true" THEN ToLower(edit'.typed)
                       ELSE edit'.typed)]_vars

---------------------------------------------------------------------------
(* The two histories of history.rs *)

MaxWrites == 3
HistoryValues == {<<"a">>, <<"b">>}

\* A faulty read that takes pos as an index from the oldest entry.
VecReadOldestFirst(vec, pos) ==
    IF pos >= Len(vec) THEN NoText ELSE SomeText(vec[pos + 1])

\* impl History<String> for Vec<String>: read(pos) is self[len - pos - 1].
VecRead(vec, pos) ==
    IF pos >= Len(vec) THEN NoText ELSE SomeText(vec[(Len(vec) - pos - 1) + 1])

\* Vec::push
VecWrite(vec, val) == Append(vec, val)

\* VecDeque::push_front
DequeWrite(deque, val) == <<val>> \o deque

HistoryInit ==
    /\ cfg = [kind |-> "history"]
    /\ term_size = <<3, 16>>
    /\ edit = [kind |-> "history", vec |-> <<>>, deque |-> <<>>]
    /\ pc = "idle"
    /\ result = [tag |-> "none", pos |-> 0, vec |-> NoText, deque |-> NoText]
    /\ nav = <<>>
    /\ screen = NoRows
    /\ render = RenderNew
    /\ sel = NoSel
    /\ checked = <<>>
    /\ paging = PagingNew(<<3, 16>>, 0)
    /\ order = <<>>
    /\ grabbed = FALSE

HistoryRest ==
    UNCHANGED <<cfg, term_size, screen, render, paging, sel, checked, order, grabbed, pc>>

\* write(val) on both histories; nav keeps the values in the order written.
HistoryWrite ==
    /\ Len(nav) < MaxWrites
    /\ \E val \in HistoryValues :
          /\ edit' = [edit EXCEPT !.vec = VecWrite(@, val), !.deque = DequeWrite(@, val)]
          /\ nav' = Append(nav, val)
    /\ UNCHANGED result
    /\ HistoryRest

\* read(pos) on both histories.
HistoryReadBoth ==
    /\ \E pos \in 0..(MaxWrites + 1) :
          result' = [tag |-> "read", pos |-> pos,
                     vec |-> VecRead(edit.vec, pos),
                     deque |-> HistoryRead(edit.deque, pos)]
    /\ UNCHANGED <<edit, nav>>
    /\ HistoryRest

HistoryNext ==
    \/ HistoryWrite
    \/ HistoryReadBoth

SpecHistory == HistoryInit /\ [][HistoryNext]_vars

\* The k-th most recent of the values written.
Recent(k) == IF k < Len(nav) THEN SomeText(nav[Len(nav) - k]) ELSE NoText

\* C31: for the Vec and for the VecDeque history, after the writes v1..vn
\* read(k) is v(n-k), the k-th most recent write, for k < n and None
\* otherwise; every read gives the same on both.
C31_HistoriesReadMostRecentFirst ==
    /\ [](\A k \in 0..(MaxWrites + 2) :
             /\ VecRead(edit.vec, k) = Recent(k)
             /\ HistoryRead(edit.deque, k) = Recent(k))
    /\ [][HistoryReadBoth =>
             /\ result'.vec = result'.deque
             /\ result'.vec = Recent(result'.pos)]_vars

\* Three values were written, the oldest unlike the latest, and read(2) gave
\* the oldest on both histories.
C31_Witness ==
    /\ cfg.kind = "history" /\ Len(nav) = 3 /\ nav[1] # nav[3]
    /\ result.tag = "read" /\ result.pos = 2
    /\ result.vec = SomeText(nav[1]) /\ result.deque = SomeText(nav[1])

---------------------------------------------------------------------------
(* The loop of Select and MultiSelect over lines that wrap by their prefix *)

\* A text narrower than the terminal that the prefix of the theme makes wider.
WideItem == <<7>>

WideCfgs ==
    {c \in Cfgs(ItemLists({PlainItem, WideItem}), 0..1, BOOLEAN) :
        /\ c.kind \in {"select", "multi"}
        /\ c.clear /\ ~c.allow_quit /\ ~c.report
        /\ c.default = 0
        /\ \A i \in DOMAIN c.defaults : ~c.defaults[i]}

WideInit ==
    \E c \in WideCfgs, rows \in TermRows, cols \in TermCols :
        Start(c, <<rows, cols>>)

SpecWide == WideInit /\ [][Next]_vars

\* The rows of the terminal that the item lines written for page p take.
RECURSIVE DisplayedRowsFrom(_, _)
DisplayedRowsFrom(idx, last) ==
    IF idx > last THEN 0
    ELSE TextRows(FormatItem(cfg.kind, ItemAt(idx)), term_size[2])
            + DisplayedRowsFrom(idx + 1, last)

DisplayedRows(p) == DisplayedRowsFrom(PageFirst(p), PageLast(p, N))

\* C32: clear_preserve_prompt erases every row of the terminal that the
\* displayed item lines take, lines wider than the terminal included: the rows
\* erased are the sum, over the displayed lines, of ceil(width of the written
\* line / columns).
C32_PreserveErasesWrappedRows ==
    [][PreserveStep => ErasedBy(DisplayedRows(paging))]_vars

---------------------------------------------------------------------------
(* Claims about Sort with the item grabbed *)

\* C33: in Sort, while grabbed, every move of the cursor (Down, Up, Left,
\* Right, the wraps at the ends of the list and of the pages included) takes
\* the item under the cursor along: order'[cursor'] = order[cursor]; and
\* order is always a permutation of 0..N-1.
C33_GrabbedItemFollowsCursor ==
    /\ [](cfg.kind = "sort" =>
            /\ Len(order) = N
            /\ {order[i] : i \in DOMAIN order} = 0..(N - 1))
    /\ [][cfg.kind = "sort" /\ grabbed /\ (KeyDown \/ KeyUp \/ KeyLeft \/ KeyRight) =>
            order'[sel' + 1] = order[sel + 1]]_vars

\* Three items, one grabbed, a page key pressed: the first item is under the
\* cursor at the start of a later page.
C33_Witness ==
    /\ cfg.kind = "sort" /\ N = 3 /\ grabbed /\ nav.paged
    /\ paging.active /\ sel = PageStart(paging) /\ sel > 0
    /\ order[sel + 1] = 0

---------------------------------------------------------------------------
(* Claims about the history keys of Input *)

\* C34: in interact_text with a history, from a fresh prompt and with Up and
\* Down only: hist_pos stays within 0..number of entries; while hist_pos > 0
\* the buffer is history.read(hist_pos - 1) with the cursor at its end; Up
\* with no older entry changes neither hist_pos nor the buffer; a Down that
\* ends at hist_pos 0 leaves the buffer empty and the cursor at 0.
C34_HistoryKeysTrackEntries ==
    /\ [](cfg.kind = "input" /\ cfg.history.some /\ pc = "read" =>
            /\ edit.hist_pos \in 0..Len(cfg.history.entries)
            /\ (nav.fresh \/ nav.arrows) /\ edit.hist_pos > 0 =>
                  /\ HistoryRead(cfg.history.entries, edit.hist_pos - 1) = SomeText(edit.chars)
                  /\ edit.position = Len(edit.chars))
    /\ [][InputArrowUp /\ cfg.history.some /\ edit.hist_pos = Len(cfg.history.entries) =>
            edit' = edit]_vars
    /\ [][InputArrowDown /\ cfg.history.some /\ edit'.hist_pos = 0 =>
            edit'.chars = <<>> /\ edit'.position = 0]_vars

\* Up, Up, Down over a two character initial text: the newer entry is in the
\* buffer again.
C34_Witness ==
    /\ cfg.kind = "input" /\ pc = "read" /\ nav.arrows
    /\ cfg.initial_text.some /\ Len(cfg.initial_text.value) = 2
    /\ edit.hist_pos = 1
    /\ edit.chars = <<"a", "b">> /\ edit.position = 2

---------------------------------------------------------------------------
(* The paged Select of src/select.rs *)
(*                                                                         *)
(* `sel` is the cursor, edit the locals page, capacity and pages.  A usize *)
(* below 0 is written as the negative number it wraps to: -1 is !0.        *)

MaxMenuItems == 3
MaxMenuRows == 3

\* items is the number of items; offset and lines_per_item are left at 1.
MenuCfgs ==
    [ kind : {"menu"}, items : 1..MaxMenuItems, paged : BOOLEAN,
      rows : 1..MaxMenuRows, default : {NoSel, 0} ]

\* capacity = items.len(), or rows / lines_per_item - offset when paged.
MenuCapacity(c) == IF c.paged THEN (c.rows \div 1) - 1 ELSE c.items

MenuInit ==
    /\ cfg \in MenuCfgs
    /\ term_size = <<cfg.rows, 16>>
    /\ edit = [kind |-> "menu", page |-> 0, capacity |-> MenuCapacity(cfg), pages |-> 0]
    /\ sel = cfg.default
    /\ pc = "begin"
    /\ result = NoResult
    /\ nav = <<>>
    /\ screen = NoRows
    /\ render = RenderNew
    /\ checked = <<>>
    /\ paging = PagingNew(<<3, 16>>, 0)
    /\ order = <<>>
    /\ grabbed = FALSE

MenuRest ==
    UNCHANGED <<cfg, term_size, screen, render, paging, checked, order, grabbed, nav>>

\* pages = items.len() / capacity + 1: the division panics for capacity 0.
MenuBegin ==
    /\ pc = "begin"
    /\ IF edit.capacity = 0
       THEN result' = [tag |-> "panic"] /\ pc' = "done" /\ UNCHANGED edit
       ELSE /\ edit' = [edit EXCEPT !.pages = (cfg.items \div edit.capacity) + 1]
            /\ pc' = "read"
            /\ UNCHANGED result
    /\ UNCHANGED sel
    /\ MenuRest

\* After the match: the page follows a cursor that left it.
PageOf(page, s, capacity) ==
    IF s # NoSel /\ (s < page * capacity \/ s >= (page + 1) * capacity)
    THEN s \div capacity
    ELSE page

\* A key that leaves the loop running, with the page and the cursor it set.
MenuKey(page, s) ==
    /\ sel' = s
    /\ edit' = [edit EXCEPT !.page = PageOf(page, s, edit.capacity)]
    /\ pc' = "read"
    /\ UNCHANGED result
    /\ MenuRest

MenuDown ==
    /\ pc = "read"
    /\ MenuKey(edit.page, DownFrom(sel, cfg.items))

MenuUp ==
    /\ pc = "read"
    /\ MenuKey(edit.page, UpFrom(sel, cfg.items))

\* ArrowLeft | h
MenuLeft ==
    /\ pc = "read"
    /\ IF cfg.paged
       THEN LET page == IF edit.page = 0 THEN edit.pages - 1 ELSE edit.page - 1
            IN  MenuKey(page, page * edit.capacity)
       ELSE MenuKey(edit.page, sel)

\* ArrowRight | l: on a page that is not the last `page -= 1`.  On page 0
\* the subtraction goes below 0: a build that checks overflow panics, another
\* one goes on with page = !0 and the cursor at !0 * capacity, where the
\* model leaves the run.
MenuRight ==
    /\ pc = "read"
    /\ IF ~cfg.paged THEN MenuKey(edit.page, sel)
       ELSE IF edit.page = edit.pages - 1 THEN MenuKey(0, 0)
       ELSE IF edit.page > 0
       THEN MenuKey(edit.page - 1, (edit.page - 1) * edit.capacity)
       ELSE /\ pc' = "done"
            /\ \/ /\ result' = [tag |-> "panic"]
                  /\ UNCHANGED <<sel, edit>>
               \/ /\ result' = [tag |-> "wrapped"]
                  /\ edit' = [edit EXCEPT !.page = NoSel]
                  /\ sel' = NoSel * edit.capacity
            /\ MenuRest

\* Enter | Space if sel != !0
MenuEnter ==
    /\ pc = "read"
    /\ IF sel # NoSel
       THEN /\ result' = [tag |-> "index", value |-> sel]
            /\ pc' = "done"
            /\ UNCHANGED <<sel, edit>>
            /\ MenuRest
       ELSE MenuKey(edit.page, sel)

\* Any other key, and Escape | q under interact, whose allow_quit is false.
MenuOther ==
    /\ pc = "read"
    /\ MenuKey(edit.page, sel)

MenuNext ==
    \/ MenuBegin
    \/ MenuDown
    \/ MenuUp
    \/ MenuLeft
    \/ MenuRight
    \/ MenuEnter
    \/ MenuOther

SpecMenu == MenuInit /\ [][MenuNext]_vars

\* C35: in the paged Select of src/select.rs Right goes from page p to page
\* (p + 1) mod pages and Left to page (p - 1 + pages) mod pages, the cursor
\* goes to the first index of that page, and after the move the cursor is an
\* index of an item.
C35_MenuPageKeysWrap ==
    /\ [][MenuRight /\ cfg.paged =>
            /\ pc' = "read"
            /\ edit'.page = (edit.page + 1) % edit.pages
            /\ sel' = edit'.page * edit.capacity
            /\ sel' \in 0..(cfg.items - 1)]_vars
    /\ [][MenuLeft /\ cfg.paged =>
            /\ edit'.page = (edit.page - 1 + edit.pages) % edit.pages
            /\ sel' = edit'.page * edit.capacity
            /\ sel' \in 0..(cfg.items - 1)]_vars

---------------------------------------------------------------------------
(* Claims about FuzzySelect's entry points and about the terminal cursor *)

\* C36: FuzzySelect called with no item ends at once with the empty-list
\* error: no operation of the terminal is tried, nothing is written and no
\* key is read.
C36_FuzzyEmptyListErrorAtOnce ==
    cfg.kind = "fuzzy" /\ cfg.items = 0 /\ pc # "call" =>
        /\ pc = "done"
        /\ result = CallErr("empty list")
        /\ nav = <<>>

\* The cursor was hidden at the i-th operation and not shown after it.
LeftHidden(log, i) ==
    /\ log[i] = Tried("hide_cursor", TRUE)
    /\ \A j \in (i + 1)..Len(log) : log[j] # Tried("show_cursor", TRUE)

\* C38: when Select, MultiSelect, Sort or FuzzySelect returns Ok, by Enter,
\* by Escape or by a key of the caller's, the cursor it has hidden has been
\* shown again.
C38_CursorShownOnReturn ==
    cfg.kind \in {"select", "multi", "sort", "fuzzy"} /\ pc = "done" /\ result = CallOk =>
        \A i \in DOMAIN nav : ~LeftHidden(nav, i)

---------------------------------------------------------------------------
(* Paging on a terminal of fewer than three rows *)
(*                                                                         *)
(* A usize that went below 0 is written as the negative number it wraps    *)
(* to, so -1 is usize::MAX.  edit.wraps says whether the build wraps on    *)
(* overflow or panics.                                                     *)

MaxShortRows == 4
MaxShortItems == 3

\* a < b between two usize.
UsizeLt(a, b) == IF (a < 0) = (b < 0) THEN a < b ELSE b < 0

\* (items_len as f64 / capacity as f64).ceil() as usize for any capacity: a
\* division by 0.0 gives infinity, which the cast takes to usize::MAX, and
\* 0.0 / 0.0 gives NaN, which it takes to 0; a capacity near usize::MAX
\* gives a quotient in (0, 1].
PagesAsUsize(items_len, capacity) ==
    IF capacity = 0 THEN (IF items_len = 0 THEN 0 ELSE NoSel)
    ELSE IF capacity < 0 THEN (IF items_len = 0 THEN 0 ELSE 1)
    ELSE CeilDiv(items_len, capacity)

\* term.size().0 as usize - 2 leaves usize below two rows.
CapacityOverflows(size) == size[1] < 2

\* Paging::new
ShortPagingNew(size, items_len) ==
    LET capacity == Capacity(size)
        pages == PagesAsUsize(items_len, capacity)
    IN  [ current_term_size   |-> size,
          pages               |-> pages,
          current_page        |-> 0,
          capacity            |-> capacity,
          items_len           |-> items_len,
          active              |-> UsizeLt(1, pages),
          activity_transition |-> TRUE ]

\* Paging::update, its three parts.
ShortResized(p, size) ==
    IF p.current_term_size # size
    THEN [p EXCEPT !.current_term_size = size,
                   !.capacity = Capacity(size),
                   !.pages = PagesAsUsize(p.items_len, Capacity(size))]
    ELSE p

ShortActivity(p) ==
    IF p.active # UsizeLt(1, p.pages)
    THEN [p EXCEPT !.active = UsizeLt(1, p.pages), !.activity_transition = TRUE]
    ELSE [p EXCEPT !.activity_transition = FALSE]

\* The cursor is outside the page, so cursor_pos / capacity is computed.
OffPage(p, cursor_pos) ==
    /\ cursor_pos # NoSel
    /\ \/ UsizeLt(cursor_pos, p.current_page * p.capacity)
       \/ ~UsizeLt(cursor_pos, (p.current_page + 1) * p.capacity)

\* cursor_pos / capacity; a capacity near usize::MAX gives 0.
ShortUpdatePage(p, cursor_pos) ==
    IF OffPage(p, cursor_pos)
    THEN [p EXCEPT !.current_page = IF p.capacity < 0 THEN 0 ELSE cursor_pos \div p.capacity]
    ELSE p

ShortInit ==
    /\ \E rows \in 0..MaxShortRows, n \in 1..MaxShortItems, wraps \in BOOLEAN :
          /\ cfg = [kind |-> "short", items |-> n]
          /\ term_size = <<rows, 16>>
          /\ sel \in {NoSel} \cup (0..(n - 1))
          /\ edit = [kind |-> "short", wraps |-> wraps]
    /\ paging = PagingNew(<<3, 16>>, 0)
    /\ pc = "start"
    /\ result = NoResult
    /\ screen = [pre |-> 0, out |-> 0]
    /\ render = RenderNew
    /\ checked = <<>>
    /\ order = <<>>
    /\ grabbed = FALSE
    /\ nav = NoNav

ShortRest == UNCHANGED <<cfg, edit, screen, render, checked, order, grabbed, nav>>

ShortPanic(what) == result' = [tag |-> "panic", value |-> what] /\ pc' = "done"

\* Paging::new(term, items_len)
ShortNew ==
    /\ pc = "start"
    /\ IF CapacityOverflows(term_size) /\ ~edit.wraps
       THEN ShortPanic("overflow") /\ UNCHANGED paging
       ELSE /\ paging' = ShortPagingNew(term_size, cfg.items)
            /\ pc' = "new"
            /\ UNCHANGED result
    /\ UNCHANGED <<term_size, sel>>
    /\ ShortRest

\* A key of the caller's that moves the cursor, or moves nothing.
ShortKeyMove ==
    /\ pc \in {"new", "update"}
    /\ \E c \in {sel} \cup (0..(cfg.items - 1)) : sel' = c
    /\ pc' = "key"
    /\ UNCHANGED <<term_size, paging, result>>
    /\ ShortRest

\* The terminal is resized while the caller waits for the key.
ShortResize ==
    /\ pc = "key"
    /\ \E rows \in 0..MaxShortRows : term_size' = <<rows, term_size[2]>>
    /\ term_size' # term_size
    /\ UNCHANGED <<paging, sel, pc, result>>
    /\ ShortRest

\* Paging::update(cursor_pos)
ShortUpdate ==
    /\ pc = "key"
    /\ LET p == ShortActivity(ShortResized(paging, term_size))
       IN  IF paging.current_term_size # term_size /\ CapacityOverflows(term_size) /\ ~edit.wraps
           THEN ShortPanic("overflow") /\ UNCHANGED paging
           ELSE IF OffPage(p, sel) /\ p.capacity = 0
           THEN ShortPanic("division by zero") /\ paging' = p
           ELSE /\ paging' = ShortUpdatePage(p, sel)
                /\ pc' = "update"
                /\ UNCHANGED result
    /\ UNCHANGED <<term_size, sel>>
    /\ ShortRest

ShortNext ==
    \/ ShortNew
    \/ ShortKeyMove
    \/ ShortResize
    \/ ShortUpdate

SpecShort == ShortInit /\ [][ShortNext]_vars

\* C39: on a terminal of any height, 0, 1 and 2 rows included, Paging::new
\* and Paging::update leave a capacity of at least 1: the subtraction of the
\* two rows does not go below 0, and no page count and no cursor / capacity
\* is computed with a capacity of 0.
C39_CapacityAtLeastOne ==
    /\ result.tag # "panic"
    /\ pc # "start" => paging.capacity >= 1

---------------------------------------------------------------------------
(* Claims about the window of MultiFuzzySelect *)

\* C37: whenever MultiFuzzySelect has redrawn a filtered list that is not
\* empty, the entry under the cursor is one of the rows it has written:
\* starting_row <= cursor_position < starting_row + visible_term_rows, after
\* any keys Up and Down and any change of the query.
C37_CursorInsideWindow ==
    cfg.kind = "multifuzzy" /\ pc = "read" /\ Len(edit.filtered_list) > 0 =>
        /\ edit.starting_row <= sel
        /\ sel < edit.starting_row + VisibleTermRows(term_size)

---------------------------------------------------------------------------
(* The builder of MultiSelect *)
(*                                                                         *)
(* edit holds the items and the defaults of the MultiSelect under          *)
(* construction, and the name and the argument of the last call.           *)

MaxCalls == 3
MaxBatch == 2

ItemTexts == {<<1>>}
Flags(n) == UNION {[1..k -> BOOLEAN] : k \in 0..n}

\* A faulty defaults() that stores the values as they are given.
AsGiven(val, n) == val

\* val.to_vec().iter().cloned().chain(repeat(false)).take(n).collect()
PadTake(val, n) == [i \in 1..n |-> IF i <= Len(val) THEN val[i] ELSE FALSE]

\* with_theme: no item, no default.
BuildInit ==
    /\ cfg = [kind |-> "build"]
    /\ edit = [kind |-> "build", items |-> <<>>, defaults |-> <<>>, calls |-> 0,
               call |-> "with_theme", val |-> <<>>]
    /\ checked = <<>>
    /\ pc = "build"
    /\ result = NoResult
    /\ term_size = <<3, 16>>
    /\ paging = PagingNew(<<3, 16>>, 0)
    /\ sel = NoSel
    /\ screen = [pre |-> 0, out |-> 0]
    /\ render = RenderNew
    /\ order = <<>>
    /\ grabbed = FALSE
    /\ nav = NoNav

BuildRest ==
    UNCHANGED <<cfg, term_size, paging, sel, screen, render, order, grabbed, nav>>

\* One call of a builder method: what it leaves in items and in defaults.
Built(call, val, items, defaults) ==
    /\ edit.calls < MaxCalls
    /\ edit' = [edit EXCEPT !.items = items, !.defaults = defaults,
                            !.calls = @ + 1, !.call = call, !.val = val]
    /\ UNCHANGED <<checked, pc, result>>
    /\ BuildRest

\* defaults(val)
BuildDefaults ==
    /\ pc = "build"
    /\ \E val \in Flags(MaxBatch + 1) :
          Built("defaults", val, edit.items, PadTake(val, Len(edit.items)))

\* item_checked(item, checked)
BuildItemChecked ==
    /\ pc = "build"
    /\ \E item \in ItemTexts, flag \in BOOLEAN :
          Built("item_checked", <<flag>>, Append(edit.items, item), Append(edit.defaults, flag))

\* item(item) is item_checked(item, false)
BuildItem ==
    /\ pc = "build"
    /\ \E item \in ItemTexts :
          Built("item", <<>>, Append(edit.items, item), Append(edit.defaults, FALSE))

\* items(items)
BuildItems ==
    /\ pc = "build"
    /\ \E k \in 0..MaxBatch : \E items \in [1..k -> ItemTexts] :
          Built("items", <<>>, edit.items \o items, edit.defaults \o [i \in 1..k |-> FALSE])

\* items_checked(items)
BuildItemsChecked ==
    /\ pc = "build"
    /\ \E k \in 0..MaxBatch : \E items \in [1..k -> ItemTexts], flags \in [1..k -> BOOLEAN] :
          Built("items_checked", flags, edit.items \o items, edit.defaults \o flags)

\* interact: the empty list is an error; else checked = defaults.clone() and
\* the first drawing reads checked[idx] for the items it writes.
BuildInteract ==
    /\ pc = "build"
    /\ pc' = "done"
    /\ IF edit.items = <<>>
       THEN result' = [tag |-> "err", value |-> "empty list"] /\ UNCHANGED checked
       ELSE /\ checked' = edit.defaults
            /\ result' = IF \E idx \in 0..(Len(edit.items) - 1) : idx >= Len(edit.defaults)
                         THEN [tag |-> "panic"]
                         ELSE [tag |-> "drawn"]
    /\ UNCHANGED edit
    /\ BuildRest

BuildNext ==
    \/ BuildDefaults
    \/ BuildItemChecked
    \/ BuildItem
    \/ BuildItems
    \/ BuildItemsChecked
    \/ BuildInteract

SpecBuild == BuildInit /\ [][BuildNext]_vars

\* C40: after any builder calls of MultiSelect (item, item_checked, items,
\* items_checked, defaults, in any order) there are as many defaults as
\* items, so the drawing finds a flag for every item it writes; right after
\* defaults(val) the flags are those of val, cut to the number of items or
\* filled with false up to it.
C40_OneDefaultPerItem ==
    /\ Len(edit.defaults) = Len(edit.items)
    /\ result.tag # "panic"
    /\ pc = "done" /\ result.tag = "drawn" => Len(checked) = Len(edit.items)
    /\ edit.call = "defaults" =>
          \A i \in 1..Len(edit.items) :
              edit.defaults[i] = (i <= Len(edit.val) /\ edit.val[i])

\* Two items, then defaults with three values and the list drawn; and in
\* another run defaults with fewer values than items.
C40_Witness ==
    /\ cfg.kind = "build"
    /\ edit.call = "defaults"
    /\ Len(edit.items) = 2
    /\ \/ Len(edit.val) = 3 /\ edit.val[1] /\ pc = "done" /\ result.tag = "drawn"
       \/ Len(edit.val) = 1 /\ edit.val[1] /\ edit.defaults = <<TRUE, FALSE>>

====
